---------------------------- MODULE Spec2Model ----------------------------
(***************************************************************************)
(* A model of morm (neurobin/python-morm): the Transaction scope of        *)
(* morm/db.py, the FieldValue container of morm/fields/field.py, the       *)
(* model-instance attribute protocol of morm/model.py and the              *)
(* insert/update/save operations of morm/db.py.                            *)
(*                                                                         *)
(* Python values are modelled as strings: "Void" is morm.types.Void,       *)
(* "None" is None, "1" and "2" are integers, "s1" is the numeric string    *)
(* '1', "sx" is a non-numeric string, and "now" is what a value producer   *)
(* such as morm.datetime.timestamp returns when it is called.              *)
(***************************************************************************)
EXTENDS Naturals, Sequences, FiniteSets, TLC

VARIABLES
    \* ---- Transaction (morm/db.py) ----
    overlap,    \* environment: may start() be called while another start() is suspended in acquire
    pc,         \* per task: where the task is in start / body / __aexit__ / end
    db_con,     \* Transaction.db._con
    tr,         \* Transaction.tr (the native transaction, named by its connection)
    free,       \* connections the pool can hand out
    taskCon,    \* per task: the connection its start() was handed by acquire
    bodyExc,    \* per task: the body of the scope raised
    termExc,    \* per task: commit()/rollback() raised inside __aexit__
    relArg,     \* per task: the connection passed to pool.release by end()
    term,       \* per task: the terminal calls issued by its __aexit__
    out,        \* per task: how its last start() or __aexit__ ended
    \* ---- model instance and DB operations (morm/model.py, morm/db.py) ----
    perp,       \* the stamp field was declared with value=f (perpetual)
    meta,       \* the model class's Meta options
    mob,        \* the instance: fields (Meta._fields_: name -> FieldValue), fromdb (Meta._fromdb_)
    origin,     \* "new"/"row": how the instance was produced, only assignments having run since; else "used"
    assigned,   \* fields the user assigned since construction or load (once used: the perpetual ones)
    last,       \* what the last operation did: its name, result, exception, events, failure origin
    \* ---- a stand-alone FieldValue (morm/fields/field.py) ----
    fvField,    \* its Field
    fv,         \* the FieldValue
    fvLast,     \* the last operation on it
    \* ---- a ModelQuery (morm/db.py) ----
    mq,         \* the query builder: fragments, arguments, named arguments, flags
    mqLast,     \* the last call on it and how it ended
    \* ---- a call of _get_changed_fields (morm/_migration.py) ----
    cf,         \* its arguments curs and pres, and its result ops once it has run
    \* ---- one migration directory (morm/_migration.py) ----
    mg,         \* the directory, its .queue, the cursor file and the clock
    mgLast,     \* the last command run on it and what it did
    \* ---- model classes and their Meta (morm/model.py) ----
    classes,    \* per class name: whether it is defined, its parent and its Meta
    heap,       \* the mutable values Meta options refer to
    metaLast,   \* the last class definition or mutation
    \* ---- Meta.ordering of a model and the clause computed from it ----
    ord,        \* the declared ordering, and the clause once it was computed
    \* ---- connection-acquire contexts (morm/ctx.py) ----
    ctxs,       \* per context object: its fields and the scopes open on it
    ctxPool,    \* the connections acquired from the pool and not released
    ctxLast,    \* the last __aenter__ or __aexit__ and what it did
    \* ---- the DB handle a Transaction yields ----
    handleUse   \* the last statement sent through the handle of a task

txvars   == <<overlap, pc, db_con, tr, free, taskCon, bodyExc, termExc, relArg, term, out>>
crudvars == <<perp, meta, mob, origin, assigned, last>>
fvvars   == <<fvField, fv, fvLast>>
mqvars   == <<mq, mqLast>>
cfvars   == <<cf>>
mgvars   == <<mg, mgLast>>
clsvars  == <<classes, heap, metaLast>>
ordvars  == <<ord>>
ctxvars  == <<ctxs, ctxPool, ctxLast>>
hdlvars  == <<handleUse>>
extvars  == <<clsvars, ordvars, ctxvars, hdlvars>>
vars     == <<txvars, crudvars, fvvars, mqvars, cfvars, mgvars, extvars>>

\* What the operations on one object leave alone: the other objects.
notTx   == <<crudvars, fvvars, mqvars, cfvars, mgvars, extvars>>
notCrud == <<txvars, fvvars, mqvars, cfvars, mgvars, extvars>>
notFV   == <<txvars, crudvars, mqvars, cfvars, mgvars, extvars>>
notMQ   == <<txvars, crudvars, fvvars, cfvars, mgvars, extvars>>
notCF   == <<txvars, crudvars, fvvars, mqvars, mgvars, extvars>>
notMG   == <<txvars, crudvars, fvvars, mqvars, cfvars, extvars>>
oldvars == <<txvars, crudvars, fvvars, mqvars, cfvars, mgvars>>
notCls  == <<oldvars, ordvars, ctxvars, hdlvars>>
notOrd  == <<oldvars, clsvars, ctxvars, hdlvars>>
notCtx  == <<oldvars, clsvars, ordvars, hdlvars>>
notHdl  == <<oldvars, clsvars, ordvars, ctxvars>>

None == "None"
Void == "Void"

(***************************************************************************)
(*                        Transaction  (morm/db.py)                        *)
(***************************************************************************)
Tasks == {"t1", "t2"}
Conns == {"c1", "c2"}

TxInit(ov) ==
    /\ overlap = ov
    /\ pc = [t \in Tasks |-> "idle"]
    /\ db_con = None
    /\ tr = None
    /\ free = Conns
    /\ taskCon = [t \in Tasks |-> None]
    /\ bodyExc = [t \in Tasks |-> FALSE]
    /\ termExc = [t \in Tasks |-> FALSE]
    /\ relArg = [t \in Tasks |-> None]
    /\ term = [t \in Tasks |-> <<>>]
    /\ out = [t \in Tasks |-> "none"]

\* The environment of the sequential specification: no start() is called while
\* another start() on the instance is suspended in pool.acquire().
StartAllowed(t) == overlap \/ \A u \in Tasks \ {t} : pc[u] # "acquire"

\* start(), up to its first suspension: the re-entrance check and the call of
\* pool.acquire().
start_nocheck(t) ==
    /\ pc[t] = "idle"
    /\ StartAllowed(t)
    /\ pc' = [pc EXCEPT ![t] = "acquire"]
    /\ out' = [out EXCEPT ![t] = "none"]
    /\ taskCon' = [taskCon EXCEPT ![t] = None]
    /\ bodyExc' = [bodyExc EXCEPT ![t] = FALSE]
    /\ termExc' = [termExc EXCEPT ![t] = FALSE]
    /\ relArg' = [relArg EXCEPT ![t] = None]
    /\ term' = [term EXCEPT ![t] = <<>>]
    /\ UNCHANGED <<overlap, db_con, tr, free>>
    /\ UNCHANGED notTx

start_check(t) ==
    /\ pc[t] = "idle"
    /\ StartAllowed(t)
    /\ IF db_con # None
         THEN /\ out' = [out EXCEPT ![t] = "TransactionError"]
              /\ UNCHANGED <<overlap, pc, db_con, tr, free, taskCon, bodyExc,
                             termExc, relArg, term>>
         ELSE /\ pc' = [pc EXCEPT ![t] = "acquire"]
              /\ out' = [out EXCEPT ![t] = "none"]
              /\ taskCon' = [taskCon EXCEPT ![t] = None]
              /\ bodyExc' = [bodyExc EXCEPT ![t] = FALSE]
              /\ termExc' = [termExc EXCEPT ![t] = FALSE]
              /\ relArg' = [relArg EXCEPT ![t] = None]
              /\ term' = [term EXCEPT ![t] = <<>>]
              /\ UNCHANGED <<overlap, db_con, tr, free>>
    /\ UNCHANGED notTx

\* pool.acquire() returns c: db._con and tr are assigned and tr.start() is called.
start_acquired(t, c) ==
    /\ pc[t] = "acquire"
    /\ c \in free
    /\ free' = free \ {c}
    /\ db_con' = c
    /\ tr' = c
    /\ taskCon' = [taskCon EXCEPT ![t] = c]
    /\ pc' = [pc EXCEPT ![t] = "trstart"]
    /\ UNCHANGED <<overlap, bodyExc, termExc, relArg, term, out>>
    /\ UNCHANGED notTx

\* pool.acquire() raises: nothing was assigned.
start_acquire_failed(t) ==
    /\ pc[t] = "acquire"
    /\ pc' = [pc EXCEPT ![t] = "idle"]
    /\ out' = [out EXCEPT ![t] = "StartFailed"]
    /\ UNCHANGED <<overlap, db_con, tr, free, taskCon, bodyExc, termExc, relArg, term>>
    /\ UNCHANGED notTx

\* tr.start() returns (start() returns self.db) or raises (start() raises, and
\* nothing is undone).
start_begun(t, ok) ==
    /\ pc[t] = "trstart"
    /\ pc' = [pc EXCEPT ![t] = IF ok THEN "body" ELSE "idle"]
    /\ out' = [out EXCEPT ![t] = IF ok THEN "db" ELSE "StartFailed"]
    /\ UNCHANGED <<overlap, db_con, tr, free, taskCon, bodyExc, termExc, relArg, term>>
    /\ UNCHANGED notTx

\* The body of the `async with` scope finishes, normally or with an exception.
body_done(t, exc) ==
    /\ pc[t] = "body"
    /\ pc' = [pc EXCEPT ![t] = "exit"]
    /\ bodyExc' = [bodyExc EXCEPT ![t] = exc]
    /\ UNCHANGED <<overlap, db_con, tr, free, taskCon, termExc, relArg, term, out>>
    /\ UNCHANGED notTx

\* The terminal call __aexit__ chooses.
TerminalOp(exc) == IF exc THEN "rollback" ELSE "commit"

\* __aexit__ up to its first suspension: rollback() or commit(), each of which
\* calls the native transaction only if self.tr is set.
aexit_always_commit(t) ==
    /\ pc[t] = "exit"
    /\ IF tr # None
         THEN /\ term' = [term EXCEPT ![t] = Append(@, [op |-> "commit", on |-> tr])]
              /\ pc' = [pc EXCEPT ![t] = "term"]
         ELSE /\ pc' = [pc EXCEPT ![t] = "end"]
              /\ UNCHANGED term
    /\ UNCHANGED <<overlap, db_con, tr, free, taskCon, bodyExc, termExc, relArg, out>>
    /\ UNCHANGED notTx

aexit_begin(t) ==
    /\ pc[t] = "exit"
    /\ IF tr # None
         THEN /\ term' = [term EXCEPT ![t] =
                            Append(@, [op |-> TerminalOp(bodyExc[t]), on |-> tr])]
              /\ pc' = [pc EXCEPT ![t] = "term"]
         ELSE /\ pc' = [pc EXCEPT ![t] = "end"]
              /\ UNCHANGED term
    /\ UNCHANGED <<overlap, db_con, tr, free, taskCon, bodyExc, termExc, relArg, out>>
    /\ UNCHANGED notTx

\* The native commit()/rollback() returns or raises; the finally clause runs next.
aexit_terminated(t, raised) ==
    /\ pc[t] = "term"
    /\ termExc' = [termExc EXCEPT ![t] = raised]
    /\ pc' = [pc EXCEPT ![t] = "end"]
    /\ UNCHANGED <<overlap, db_con, tr, free, taskCon, bodyExc, relArg, term, out>>
    /\ UNCHANGED notTx

\* How __aexit__ ends: it raises what release raised in the finally clause,
\* else what commit/rollback raised, else it returns.
ExitOutcome(tx, rx) ==
    IF rx THEN "release_error" ELSE IF tx THEN "terminal_error" ELSE "returned"

\* end() up to its suspension: release is called only if db._con is set;
\* otherwise the finally clause clears the references at once.
end_begin(t) ==
    /\ pc[t] = "end"
    /\ IF db_con # None
         THEN /\ relArg' = [relArg EXCEPT ![t] = db_con]
              /\ pc' = [pc EXCEPT ![t] = "release"]
              /\ UNCHANGED <<db_con, tr, out>>
         ELSE /\ db_con' = None
              /\ tr' = None
              /\ pc' = [pc EXCEPT ![t] = "idle"]
              /\ out' = [out EXCEPT ![t] = ExitOutcome(termExc[t], FALSE)]
              /\ UNCHANGED relArg
    /\ UNCHANGED <<overlap, free, taskCon, bodyExc, termExc, term>>
    /\ UNCHANGED notTx

\* pool.release() returns or raises; the finally clause of end() clears the
\* references either way.
end_released_nofinally(t, raised) ==
    /\ pc[t] = "release"
    /\ free' = IF raised THEN free ELSE free \cup {relArg[t]}
    /\ db_con' = IF raised THEN db_con ELSE None
    /\ tr' = IF raised THEN tr ELSE None
    /\ pc' = [pc EXCEPT ![t] = "idle"]
    /\ out' = [out EXCEPT ![t] = ExitOutcome(termExc[t], raised)]
    /\ UNCHANGED <<overlap, taskCon, bodyExc, termExc, relArg, term>>
    /\ UNCHANGED notTx

end_released(t, raised) ==
    /\ pc[t] = "release"
    /\ free' = IF raised THEN free ELSE free \cup {relArg[t]}
    /\ db_con' = None
    /\ tr' = None
    /\ pc' = [pc EXCEPT ![t] = "idle"]
    /\ out' = [out EXCEPT ![t] = ExitOutcome(termExc[t], raised)]
    /\ UNCHANGED <<overlap, taskCon, bodyExc, termExc, relArg, term>>
    /\ UNCHANGED notTx

\* DB.corp() of a handle with the fields _con and _pool: the connection if
\* one is set, else _pool.pool, which a handle without a pool does not have.
corp(_con, _pool) ==
    IF _con # None THEN [exc |-> None, on |-> _con]
    ELSE IF _pool = None THEN [exc |-> "AttributeError", on |-> None]
    ELSE [exc |-> None, on |-> "pool"]

\* The exits of a scope: what __aexit__ did when it ended.
ExitOutcomes == {"returned", "terminal_error", "release_error"}

\* A statement sent through the handle task t got from its scope: in which
\* state the scope of t was, the connection of that scope, the exception, and
\* the connection or pool it was sent on.
HandleUse(t, scope, con, exc, on) ==
    [task |-> t, scope |-> scope, con |-> con, exc |-> exc, on |-> on]

HdlIdle == handleUse = HandleUse("none", "none", None, None, None)

\* Task t awaits fetch/fetchrow/fetchval/execute on the handle its scope
\* yielded, in the scope or after it was left.  The handle is the one DB
\* object of the Transaction, made as DB(None).
handle_execute(t) ==
    /\ \/ pc[t] = "body"
       \/ pc[t] = "idle" /\ out[t] \in ExitOutcomes
    /\ \E r \in {corp(db_con, None)} :
         handleUse' = HandleUse(t, IF pc[t] = "body" THEN "active" ELSE "exited",
                                taskCon[t], r.exc, r.on)
    /\ UNCHANGED txvars
    /\ UNCHANGED notHdl

Next ==
    \/ \E t \in Tasks : start_check(t)
    \/ \E t \in Tasks, c \in Conns : start_acquired(t, c)
    \/ \E t \in Tasks : start_acquire_failed(t)
    \/ \E t \in Tasks, ok \in BOOLEAN : start_begun(t, ok)
    \/ \E t \in Tasks, exc \in BOOLEAN : body_done(t, exc)
    \/ \E t \in Tasks : aexit_begin(t)
    \/ \E t \in Tasks, raised \in BOOLEAN : aexit_terminated(t, raised)
    \/ \E t \in Tasks : end_begin(t)
    \/ \E t \in Tasks, raised \in BOOLEAN : end_released(t, raised)
    \/ \E t \in Tasks : handle_execute(t)

(***************************************************************************)
(*               Field and FieldValue  (morm/fields/field.py)              *)
(***************************************************************************)
\* Bound on the change counter a field reaches by assignments.
MaxCount == 2

Raise == "RAISE"

\* Field.validator: always_valid, or the tests' `type(x) is int`.
Validate(f, v) ==
    IF f.validator = "always_valid" THEN TRUE ELSE v \in {"1", "2"}

\* Field.modifier: nomodify, or the tests' `int(x)`, which raises on a
\* non-numeric string and on None.
Modify(f, v) ==
    IF f.modifier = "nomodify" THEN v
    ELSE IF v \in {"1", "2"} THEN v
    ELSE IF v = "s1" THEN "1"
    ELSE Raise

\* Field.get_default: the default called if callable ("fn"), else the default.
get_default(f) == IF f.default = "fn" THEN "now" ELSE f.default

\* Field.clean: validator -> modifier -> validator, falling back to the
\* default if asked to; every exception becomes a ValueError.
clean(f, v, fallback) ==
    IF Validate(f, v) THEN [ok |-> TRUE, value |-> v]
    ELSE LET m == Modify(f, v) IN
         IF m = Raise THEN [ok |-> FALSE, value |-> v]
         ELSE IF Validate(f, m) THEN [ok |-> TRUE, value |-> m]
         ELSE IF fallback THEN [ok |-> TRUE, value |-> get_default(f)]
         ELSE [ok |-> FALSE, value |-> m]

\* FieldValue.value_change_count setter: a perpetual field always counts 1.
set_value_change_count(f, x, n) ==
    [x EXCEPT !.count = IF ~f.perpetual THEN n ELSE 1]

\* FieldValue.__init__
FieldValue(f) ==
    set_value_change_count(f, [value |-> Void, count |-> 0, ignore |-> FALSE], 0)

\* FieldValue.value getter
value(f, x) ==
    IF x.value = Void \/ (f.perpetual /\ x.count = 0) THEN get_default(f)
    ELSE x.value

\* FieldValue.set_value: [fv |-> the FieldValue afterwards, raised |-> clean raised]
set_value(f, x, v, fallback) ==
    LET c == clean(f, v, fallback) IN
    IF ~c.ok THEN [fv |-> x, raised |-> TRUE]
    ELSE LET x1 == [x EXCEPT !.value = c.value]
             x2 == IF ~x1.ignore THEN set_value_change_count(f, x1, x1.count + 1)
                   ELSE x1
         IN [fv |-> [x2 EXCEPT !.ignore = FALSE], raised |-> FALSE]

\* FieldValue.delete_value
delete_value_resets(f, x) == set_value_change_count(f, [x EXCEPT !.value = Void], 0)

delete_value(f, x) == [x EXCEPT !.value = Void]

\* The Fields a stand-alone FieldValue is built on.
FieldConfigs ==
    [default : {Void, "s1"}, perpetual : {FALSE},
     validator : {"always_valid", "is_int"}, modifier : {"nomodify", "to_int"},
     fallback : BOOLEAN]
    \cup
    [default : {"fn"}, perpetual : {TRUE},
     validator : {"always_valid", "is_int"}, modifier : {"nomodify", "to_int"},
     fallback : BOOLEAN]

AssignVals == {"1", "2", "s1", "sx"}

\* The last operation on the FieldValue: whether it raised, the counter and
\* the stored value before it, and the value and fallback flag it was given.
FvLast(op, raised, count, val, v, fb) ==
    [op |-> op, raised |-> raised, count |-> count, value |-> val, v |-> v, fb |-> fb]

FvInit ==
    /\ fvField \in FieldConfigs
    /\ fv = FieldValue(fvField)
    /\ fvLast = FvLast("init", FALSE, 0, Void, Void, FALSE)

\* fv.set_value(v, fallback=fb); `fv.value = v` is set_value(v, field.fallback).
FvSet(v, fb) ==
    /\ fv.count < MaxCount
    /\ LET r == set_value(fvField, fv, v, fb) IN
       /\ fv' = r.fv
       /\ fvLast' = FvLast("set", r.raised, fv.count, fv.value, v, fb)
    /\ UNCHANGED fvField
    /\ UNCHANGED notFV

\* fv.delete_value()
FvDelete ==
    /\ fv' = delete_value(fvField, fv)
    /\ fvLast' = FvLast("delete", FALSE, fv.count, fv.value, Void, FALSE)
    /\ UNCHANGED fvField
    /\ UNCHANGED notFV

NextFV ==
    \/ \E v \in AssignVals, fb \in BOOLEAN : FvSet(v, fb)
    \/ FvDelete

(***************************************************************************)
(*        Model class and instance  (morm/model.py, morm/db.py)            *)
(***************************************************************************)
\* Meta._field_defs_, in declaration order, and Meta.pk.
FieldNames == <<"id", "name", "stamp">>
Names == {FieldNames[i] : i \in 1..Len(FieldNames)}
Pk == "id"

\* The Field of each name; stamp is perpetual (value=f) when perp is set.
FieldDef(k) ==
    [default |-> IF k = "stamp" /\ perp THEN "fn" ELSE Void,
     perpetual |-> (k = "stamp" /\ perp),
     validator |-> "always_valid", modifier |-> "nomodify", fallback |-> FALSE]

NoValues == [k \in Names \cup {""} |-> {}]

\* The default Meta of ModelType.__new__.
MetaDefault ==
    [fields_up |-> {}, exclude_fields_up |-> {}, exclude_values_up |-> NoValues,
     fields_down |-> {}, exclude_fields_down |-> {}, exclude_values_down |-> NoValues]

\* The Meta options models are declared with here: the defaults, one with the
\* primary key outside fields_down, one with a value excluded for up.
MetaConfigs ==
    { MetaDefault,
      [MetaDefault EXCEPT !.fields_down = {"name", "stamp"}],
      [MetaDefault EXCEPT !.exclude_values_up = [NoValues EXCEPT ![""] = {"2"}]] }

is_valid_key(k, fields, exclude_keys) ==
    IF k \in exclude_keys THEN FALSE
    ELSE IF fields # {} /\ k \notin fields THEN FALSE
    ELSE TRUE

is_valid_value_nocatchall(k, v, exclude_values) ==
    IF v = Void THEN FALSE
    ELSE IF v \in exclude_values[k] THEN FALSE
    ELSE TRUE

is_valid_value(k, v, exclude_values) ==
    IF v = Void THEN FALSE
    ELSE IF v \in exclude_values[k] THEN FALSE
    ELSE IF v \in exclude_values[""] THEN FALSE
    ELSE TRUE

is_valid_down(k, v) ==
    /\ is_valid_key(k, meta.fields_down, meta.exclude_fields_down)
    /\ is_valid_value(k, v, meta.exclude_values_down)

is_valid_up(k, v) ==
    /\ is_valid_key(k, meta.fields_up, meta.exclude_fields_up)
    /\ is_valid_value(k, v, meta.exclude_values_up)

\* ModelBase.__init__ without arguments.
ModelBase_init ==
    [fields |-> [k \in Names |-> FieldValue(FieldDef(k))], fromdb |-> {}]

\* ModelBase.__getattr__ of a declared field: [ok, value]; ~ok is AttributeError.
getattr(m, k) ==
    LET v == value(FieldDef(k), m.fields[k]) IN
    IF is_valid_down(k, v) THEN [ok |-> TRUE, value |-> v]
    ELSE [ok |-> FALSE, value |-> Void]

\* ModelBase.__iter__: the (name, value) pairs it yields, in field order.
ModelBase_iter(m) ==
    LET keys == SelectSeq(FieldNames,
                          LAMBDA n : is_valid_down(n, value(FieldDef(n), m.fields[n])))
    IN [i \in 1..Len(keys) |-> <<keys[i], value(FieldDef(keys[i]), m.fields[keys[i]])>>]

\* ModelBase.__setattr__ of a declared field: [mob, exc].
setattr(m, k, v) ==
    IF is_valid_up(k, v)
    THEN LET r == set_value(FieldDef(k), m.fields[k], v, FieldDef(k).fallback) IN
         IF r.raised THEN [mob |-> m, exc |-> "ValueError"]
         ELSE [mob |-> [m EXCEPT !.fields[k] = r.fv], exc |-> "none"]
    ELSE [mob |-> m, exc |-> "AttributeError"]

\* ModelBase.__delattr__ of a declared field.
delattr(m, k) == [m EXCEPT !.fields[k] = delete_value(FieldDef(k), @)]

\* The member of a one-element set: binds the value of an expression.
Only(S) == CHOOSE x \in S : TRUE

\* record_to_model's loop over the columns cols (a sequence) of the row.
RECURSIVE record_items(_, _, _)
record_items(m, cols, row) ==
    IF cols = <<>> THEN [mob |-> m, exc |-> "none"]
    ELSE Only({ IF r.exc # "none" THEN r
                ELSE record_items(r.mob, Tail(cols), row) :
                r \in {setattr([m EXCEPT !.fromdb = @ \cup {Head(cols)}],
                               Head(cols), row[Head(cols)])} })

\* record_to_model(record, model_class)
record_to_model(cols, row) == record_items(ModelBase_init, cols, row)

\* ModelType._get_FieldValue_data_valid_(data, up=True): the names it yields.
ValidUp(m) ==
    SelectSeq(FieldNames,
              LAMBDA n : /\ is_valid_key(n, meta.fields_up, meta.exclude_fields_up)
                         /\ is_valid_value(n, value(FieldDef(n), m.fields[n]),
                                           meta.exclude_values_up))

SeqSet(s) == {s[i] : i \in 1..Len(s)}

\* The instance with the change counters of the fields named in cols set to 0.
ResetCounts(m, cols) ==
    [m EXCEPT !.fields = [k \in Names |->
        IF k \in SeqSet(cols) THEN set_value_change_count(FieldDef(k), m.fields[k], 0)
        ELSE m.fields[k]]]

\* DB.get_insert_query(mob, reset): cols = <<>> is the empty query ''.
get_insert_query_noreset(m, reset) ==
    LET cols == ValidUp(m)
    IN [cols |-> cols,
        args |-> [i \in 1..Len(cols) |-> value(FieldDef(cols[i]), m.fields[cols[i]])],
        mob |-> m]

get_insert_query(m, reset) ==
    LET cols == ValidUp(m)
        m1 == IF reset /\ cols # <<>>
              THEN [ResetCounts(m, cols) EXCEPT !.fromdb = {}]
              ELSE m
    IN [cols |-> cols,
        args |-> [i \in 1..Len(cols) |-> value(FieldDef(cols[i]), m1.fields[cols[i]])],
        mob |-> m1]

\* DB.get_update_query(mob, reset): cols is the SET list (<<>> is the empty
\* query ''), args its arguments followed by the key; exc is the AttributeError
\* of reading the primary key.
get_update_query_noreset(m, reset) ==
    LET pkval == getattr(m, Pk)
        cols == SelectSeq(ValidUp(m), LAMBDA n : n # Pk /\ m.fields[n].count > 0)
        vals == [i \in 1..Len(cols) |-> value(FieldDef(cols[i]), m.fields[cols[i]])]
    IN IF ~pkval.ok
       THEN [exc |-> "AttributeError", cols |-> <<>>, args |-> <<>>, mob |-> m]
       ELSE [exc |-> "none", cols |-> cols,
             args |-> IF cols # <<>> THEN Append(vals, pkval.value) ELSE vals,
             mob |-> m]

get_update_query(m, reset) ==
    LET pkval == getattr(m, Pk)
        cols == SelectSeq(ValidUp(m), LAMBDA n : n # Pk /\ m.fields[n].count > 0)
        vals == [i \in 1..Len(cols) |-> value(FieldDef(cols[i]), m.fields[cols[i]])]
    IN IF ~pkval.ok
       THEN [exc |-> "AttributeError", cols |-> <<>>, args |-> <<>>, mob |-> m]
       ELSE [exc |-> "none", cols |-> cols,
             args |-> IF cols # <<>> THEN Append(vals, pkval.value) ELSE vals,
             mob |-> IF reset THEN ResetCounts(m, cols) ELSE m]

(***************************************************************************)
(*                 DB.update / insert / save  (morm/db.py)                 *)
(***************************************************************************)
\* The calls of an operation that can fail on their own: the model's hooks
\* and the statement's execution.  A plan gives each its outcome.
Points == {"pre_save", "pre_update", "exec_update", "post_update",
           "pre_insert", "exec_insert", "post_insert", "post_save"}
Kinds == {"ok", "AttributeError", "Error"}

\* The kinds a call can fail with; only on the update path does save tell
\* AttributeError from the rest.
UpdatePoints == {"pre_update", "exec_update", "post_update"}
InsertPoints == {"pre_insert", "exec_insert", "post_insert"}
FaultKinds(x) == IF x \in UpdatePoints THEN {"AttributeError", "Error"} ELSE {"Error"}

OkPlan == [x \in Points |-> "ok"]
\* The plans in which at most one call among pts fails.
OneFault(pts) ==
    {OkPlan} \cup UNION {{[OkPlan EXCEPT ![x] = kd] : kd \in FaultKinds(x)} : x \in pts}

\* Keys the INSERT ... RETURNING can give back.
Keys == {None, "1"}

DATA_NO_CHANGE == "DATA_NO_CHANGE_TRIGGERED"

\* The result of an operation: the instance afterwards, the value returned,
\* the exception raised ("none" if it returned), the hooks called and
\* statements executed, and where on the update path the failure arose.
Result(m, res, exc, ev, why) ==
    [mob |-> m, res |-> res, exc |-> exc, ev |-> ev, why |-> why]

\* DB.update(mob)
update(m, plan) ==
    Only({
      IF q.exc # "none" THEN Result(m, None, q.exc, <<>>, "nopk")
      ELSE IF q.cols = <<>> THEN Result(q.mob, DATA_NO_CHANGE, "none", <<>>, "none")
      ELSE IF plan["pre_update"] # "ok"
        THEN Result(q.mob, None, plan["pre_update"], <<"pre_update">>, "pre_update")
      ELSE IF plan["exec_update"] # "ok"
        THEN Result(q.mob, None, plan["exec_update"], <<"pre_update", "UPDATE">>,
                    "exec_update")
      ELSE IF plan["post_update"] # "ok"
        THEN Result(q.mob, None, plan["post_update"],
                    <<"pre_update", "UPDATE", "post_update">>, "post_update")
      ELSE Result(q.mob, "UPDATE", "none", <<"pre_update", "UPDATE", "post_update">>,
                  "none") :
      q \in {get_update_query(m, TRUE)} })

\* insert() once the query q is built and the key pkval came back: the key is
\* written to the instance, then the post-insert hook runs.
insert_returned(q, plan, pkval) ==
    Only({
      IF s.exc # "none"
        THEN Result(s.mob, None, s.exc, <<"pre_insert", "INSERT">>, "none")
      ELSE IF plan["post_insert"] # "ok"
        THEN Result(s.mob, None, plan["post_insert"],
                    <<"pre_insert", "INSERT", "post_insert">>, "none")
      ELSE Result(s.mob, pkval, "none", <<"pre_insert", "INSERT", "post_insert">>,
                  "none") :
      s \in {IF pkval # None THEN setattr(q.mob, Pk, pkval)
             ELSE [mob |-> q.mob, exc |-> "none"]} })

\* DB.insert(mob); key is what the statement returns.  The empty query ''
\* inserts nothing and returns no key.
insert(m, plan, key) ==
    Only({
      IF plan["pre_insert"] # "ok"
        THEN Result(q.mob, None, plan["pre_insert"], <<"pre_insert">>, "none")
      ELSE IF plan["exec_insert"] # "ok"
        THEN Result(q.mob, None, plan["exec_insert"], <<"pre_insert", "INSERT">>, "none")
      ELSE insert_returned(q, plan, IF q.cols = <<>> THEN None ELSE key) :
      q \in {get_insert_query(m, TRUE)} })

\* save() once update() ended as u: insert on AttributeError, then post_save.
save_updated(u, plan, key) ==
    Only({
      IF r.exc # "none"
        THEN Result(r.mob, None, r.exc, <<"pre_save">> \o r.ev, r.why)
      ELSE IF plan["post_save"] # "ok"
        THEN Result(r.mob, None, plan["post_save"],
                    <<"pre_save">> \o r.ev \o <<"post_save">>, r.why)
      ELSE Result(r.mob, r.res, "none", <<"pre_save">> \o r.ev \o <<"post_save">>,
                  r.why) :
      r \in {IF u.exc = "AttributeError"
             THEN Only({Result(i.mob, i.res, i.exc, u.ev \o i.ev, u.why) :
                        i \in {insert(u.mob, plan, key)}})
             ELSE u} })

\* DB.save(mob): update, and insert on AttributeError.
save(m, plan, key) ==
    IF plan["pre_save"] # "ok"
      THEN Result(m, None, plan["pre_save"], <<"pre_save">>, "none")
    ELSE Only({save_updated(u, plan, key) : u \in {update(m, plan)}})

\* What the last operation on the instance was and how it ended.
Last(op, r) == [op |-> op, res |-> r.res, exc |-> r.exc, ev |-> r.ev, why |-> r.why]

NoResult == [res |-> None, exc |-> "none", ev |-> <<>>, why |-> "none"]

\* "update"/"insert": the persistence operation that has just succeeded (an
\* insert with a key returned), nothing having run after it; else "none".
since ==
    IF last.op \notin {"update", "insert", "save"} \/ last.exc # "none" THEN "none"
    ELSE IF "INSERT" \in SeqSet(last.ev) THEN (IF last.res # None THEN "insert" ELSE "none")
    ELSE IF last.op = "insert" THEN "none"
    ELSE "update"

\* The outcomes of the calls an operation on m makes: no outcome is drawn
\* for a call the operation does not reach.
UpdatePlans(m) ==
    LET q == get_update_query(m, FALSE) IN
    IF q.exc = "none" /\ q.cols # <<>> THEN OneFault(UpdatePoints) ELSE {OkPlan}

InsertPlans == OneFault(InsertPoints)

SavePlans(m) ==
    LET q == get_update_query(m, FALSE) IN
    OneFault({"pre_save", "post_save"} \cup
             (IF q.exc # "none" THEN InsertPoints
              ELSE IF q.cols # <<>> THEN UpdatePoints ELSE {}))

\* The keys an operation with this plan can be handed: none is drawn when
\* its INSERT is not executed.
KeysFor(r) == IF "INSERT" \in SeqSet(r.ev) THEN Keys ELSE {None}

CrudInit ==
    /\ perp \in BOOLEAN
    /\ meta \in MetaConfigs
    /\ mob = ModelBase_init
    /\ origin = "new"
    /\ assigned = {}
    /\ last = Last("new", NoResult)

PerpNames == {k \in Names : FieldDef(k).perpetual}

\* mob = Model()
ModelNew ==
    /\ mob' = ModelBase_init
    /\ origin' = "new"
    /\ assigned' = {}
    /\ last' = Last("new", NoResult)
    /\ UNCHANGED <<perp, meta>>
    /\ UNCHANGED notCrud

\* The columns a row is fetched with.
RowColumns == { FieldNames, <<"id", "name">> }
RowVals == {"1", "2"}

\* fetchrow/get with a model class: record_to_model of the row; if it raises,
\* no instance is produced.
Load(cols, row) ==
    \E r \in {record_to_model(cols, row)} :
    /\ IF r.exc = "none"
         THEN /\ mob' = r.mob
              /\ origin' = "row"
              /\ assigned' = {}
         ELSE UNCHANGED <<mob, origin, assigned>>
    /\ last' = Last("load", [NoResult EXCEPT !.exc = r.exc])
    /\ UNCHANGED <<perp, meta>>
    /\ UNCHANGED notCrud

\* mob.k = v
Assign(k, v) ==
    /\ mob.fields[k].count < MaxCount
    /\ \E r \in {setattr(mob, k, v)} :
       /\ mob' = r.mob
       /\ assigned' = IF r.exc # "none" THEN assigned
                      ELSE IF origin = "used" THEN (assigned \cup {k}) \cap PerpNames
                      ELSE assigned \cup {k}
       /\ last' = Last("assign", [NoResult EXCEPT !.exc = r.exc])
    /\ UNCHANGED <<perp, meta, origin>>
    /\ UNCHANGED notCrud

\* del mob.k
Delete(k) ==
    /\ mob' = delattr(mob, k)
    /\ origin' = "used"
    /\ assigned' = assigned \cap PerpNames
    /\ last' = Last("delete", NoResult)
    /\ UNCHANGED <<perp, meta>>
    /\ UNCHANGED notCrud

\* await db.update(mob)
Update(plan) ==
    \E r \in {update(mob, plan)} :
    /\ mob' = r.mob
    /\ origin' = "used"
    /\ assigned' = assigned \cap PerpNames
    /\ last' = Last("update", r)
    /\ UNCHANGED <<perp, meta>>
    /\ UNCHANGED notCrud

\* await db.insert(mob)
Insert(plan, key) ==
    \E r \in {insert(mob, plan, key)} :
    /\ r.mob.fields[Pk].count <= MaxCount
    /\ mob' = r.mob
    /\ origin' = "used"
    /\ assigned' = assigned \cap PerpNames
    /\ last' = Last("insert", r)
    /\ UNCHANGED <<perp, meta>>
    /\ UNCHANGED notCrud

\* await db.save(mob)
Save(plan, key) ==
    \E r \in {save(mob, plan, key)} :
    /\ r.mob.fields[Pk].count <= MaxCount
    /\ mob' = r.mob
    /\ origin' = "used"
    /\ assigned' = assigned \cap PerpNames
    /\ last' = Last("save", r)
    /\ UNCHANGED <<perp, meta>>
    /\ UNCHANGED notCrud

NextCrud ==
    \/ ModelNew
    \/ \E cols \in RowColumns : \E row \in [SeqSet(cols) -> RowVals] : Load(cols, row)
    \/ \E k \in Names, v \in RowVals : Assign(k, v)
    \/ \E k \in Names : Delete(k)
    \/ \E plan \in UpdatePlans(mob) : Update(plan)
    \/ \E plan \in InsertPlans :
          \E key \in KeysFor(insert(mob, plan, None)) : Insert(plan, key)
    \/ \E plan \in SavePlans(mob) :
          \E key \in KeysFor(save(mob, plan, None)) : Save(plan, key)

(***************************************************************************)
(*                        ModelQuery  (morm/db.py)                         *)
(***************************************************************************)
\* Bound on the number of fragments in the query queue.
MaxFrags == 2

\* Named arguments and their values.
MQNames == {"a", "b"}
MQVals  == {"v1", "v2"}

\* A fragment is a sequence of tokens: plain SQL text, a reference :name, or
\* a positional parameter $n.  The name a $n was rewritten from is kept with
\* it for the record; the query text holds only $n.
Txt        == [t |-> "txt", name |-> "", n |-> 0]
Ref(k)     == [t |-> "ref", name |-> k, n |-> 0]
Slot(k, n) == [t |-> "slot", name |-> k, n |-> n]

\* An entry of _query_str_queue, with the method that added it and the names
\* _named_args held when it was added.
Entry(toks, by, known) == [toks |-> toks, by |-> by, known |-> known]

\* An entry of _args, with where it came from: "pos" or the name.
Arg(v, src) == [v |-> v, src |-> src]

\* ModelQuery.reset(): _named_args maps a name to its value, Void if absent,
\* named_keys is the dict's key order; _named_args_mapper maps a name to
\* its slot, 0 if absent.
reset(m) ==
    [queue |-> <<>>, end_query_str |-> "", start_query_str |-> "",
     args |-> <<>>, arg_count |-> 0,
     named_keys |-> <<>>, named_args |-> [k \in MQNames |-> Void],
     named_args_mapper |-> [k \in MQNames |-> 0],
     filter_initiated |-> FALSE, ordering |-> "", update_initiated |-> FALSE]

\* ModelQuery.__init__
ModelQuery_init == reset([queue |-> <<>>])

\* ModelQuery.c
ModelQuery_c(m) == m.arg_count + 1

\* ModelQuery._process_positional_args
process_positional_args(m, args) ==
    [m EXCEPT !.args = @ \o [i \in 1..Len(args) |-> Arg(args[i], "pos")],
              !.arg_count = @ + Len(args)]

\* re.subn(f':{k}\\b', f'${n}', q): the fragment rewritten and the number
\* of matches.
subn(k, n, frag) ==
    [q |-> [i \in 1..Len(frag) |-> IF frag[i] = Ref(k) THEN Slot(k, n) ELSE frag[i]],
     mc |-> Cardinality({i \in 1..Len(frag) : frag[i] = Ref(k)})]

\* dict.update(kwargs), kwargs a sequence of <<name, value>>: a new key goes
\* to the end of the key order, a known key keeps its place.
RECURSIVE named_args_update(_, _)
named_args_update(m, kwargs) ==
    IF kwargs = <<>> THEN m
    ELSE LET k == Head(kwargs)[1]
             v == Head(kwargs)[2]
         IN named_args_update(
              [m EXCEPT !.named_keys = IF m.named_args[k] = Void THEN Append(@, k) ELSE @,
                        !.named_args[k] = v],
              Tail(kwargs))

\* One turn of the loop of _process_keyword_args, for the name k.
keyword_arg_unmapped(m, frag, k) ==
    Only({ IF r.mc > 0
             THEN [mq |-> [m EXCEPT !.args = Append(@, Arg(m.named_args[k], k)),
                                    !.arg_count = @ + 1],
                   q |-> r.q]
             ELSE [mq |-> m, q |-> r.q] :
           r \in {subn(k, m.arg_count + 1, frag)} })

keyword_arg(m, frag, k) ==
    IF m.named_args_mapper[k] # 0
      THEN [mq |-> m, q |-> subn(k, m.named_args_mapper[k], frag).q]
    ELSE Only({ IF r.mc > 0
                  THEN [mq |-> [m EXCEPT !.args = Append(@, Arg(m.named_args[k], k)),
                                         !.arg_count = @ + 1,
                                         !.named_args_mapper[k] = m.arg_count + 1],
                        q |-> r.q]
                  ELSE [mq |-> m, q |-> r.q] :
                r \in {subn(k, m.arg_count + 1, frag)} })

RECURSIVE keyword_args_loop(_, _, _)
keyword_args_loop(m, frag, keys) ==
    IF keys = <<>> THEN [mq |-> m, q |-> frag]
    ELSE Only({ keyword_args_loop(r.mq, r.q, Tail(keys)) :
                r \in {keyword_arg(m, frag, Head(keys))} })

\* ModelQuery._process_keyword_args(q, **kwargs): [mq, q]
process_keyword_args(m, frag, kwargs) ==
    Only({ keyword_args_loop(m1, frag, m1.named_keys) :
           m1 \in {named_args_update(m, kwargs)} })

\* The names _named_args holds.
Known(m) == {k \in MQNames : m.named_args[k] # Void}

\* ModelQuery.q(q, *args)
ModelQuery_q(m, frag, args) ==
    Only({ [m1 EXCEPT !.queue = Append(@, Entry(frag, "q", Known(m1)))] :
           m1 \in {process_positional_args(m, args)} })

\* ModelQuery.q_(q, *args, **kwargs)
q_(m, frag, args, kwargs) ==
    Only({ [r.mq EXCEPT !.queue = Append(@, Entry(r.q, "q_", Known(r.mq)))] :
           r \in {process_keyword_args(process_positional_args(m, args), frag, kwargs)} })

\* ModelQuery.qq(word): the quoted word, nothing for the empty word.
qq(m, word) ==
    IF word # "" THEN [m EXCEPT !.queue = Append(@, Entry(<<Txt>>, "qq", Known(m)))]
    ELSE m

\* ModelQuery.qc_(word, rest, *args, **kwargs)
qc_(m, word, rest, args, kwargs) == q_(qq(m, word), rest, args, kwargs)

\* ModelQuery.qu(data), data the sequence of the dict's values: one
\* fragment '"c"=$i, ...' and the values as arguments.
qu(m, data) == ModelQuery_q(m, [i \in 1..Len(data) |-> Slot("", ModelQuery_c(m) + i - 1)], data)

\* ModelQuery.qwhere()
qwhere(m) == ModelQuery_q(m, <<Txt>>, <<>>)

\* ModelQuery.ordering of a model that declares an ordering.
ModelOrdering == "\"id\" ASC"

\* ModelQuery.qfilter(no_ordering): [mq, exc]
qfilter_nocheck(m, no_ordering) ==
    Only({ [mq |-> [m1 EXCEPT !.filter_initiated = TRUE,
                              !.ordering = ModelOrdering,
                              !.end_query_str =
                                  IF ~no_ordering THEN "ORDER BY " \o ModelOrdering
                                  ELSE @],
            exc |-> "none"] :
           m1 \in {ModelQuery_q(reset(m), <<Txt>>, <<>>)} })

qfilter(m, no_ordering) ==
    IF ~m.filter_initiated
      THEN Only({ [mq |-> [m1 EXCEPT !.filter_initiated = TRUE,
                                     !.ordering = ModelOrdering,
                                     !.end_query_str =
                                         IF ~no_ordering THEN "ORDER BY " \o ModelOrdering
                                         ELSE @],
                   exc |-> "none"] :
                  m1 \in {ModelQuery_q(reset(m), <<Txt>>, <<>>)} })
    ELSE [mq |-> m, exc |-> "ValueError"]

\* ModelQuery.qupdate(data): [mq, exc]
qupdate(m, data) ==
    IF ~m.update_initiated
      THEN Only({ [mq |-> [m1 EXCEPT !.update_initiated = TRUE], exc |-> "none"] :
                  m1 \in {qwhere(qu(ModelQuery_q(reset(m), <<Txt>>, <<>>), data))} })
    ELSE [mq |-> m, exc |-> "ValueError"]

\* The scaffolds (qfilter, qupdate) initiated since the caller's last
\* reset(): all of them, and the latest ("none" if none).
NoScaffold == [called |-> {}, latest |-> "none"]
Initiated(sc, kind) == [called |-> sc.called \cup {kind}, latest |-> kind]

\* The last call on the builder: its name, the exception it raised, and the
\* scaffolds initiated before and after the call.
MqLast(op, exc, before, after) ==
    [op |-> op, exc |-> exc, before |-> before, after |-> after]

MqInit ==
    /\ mq = ModelQuery_init
    /\ mqLast = MqLast("init", "none", NoScaffold, NoScaffold)

\* The fragments, positional arguments and keyword arguments callers pass.
Frags == { <<Txt>>, <<Ref("a")>>, <<Ref("a"), Ref("a")>>, <<Ref("b"), Ref("a")>> }
PosArgs == { <<>>, <<"p">> }
KwArgs == { <<>>, << <<"a", "v1">> >>, << <<"a", "v2">> >>, << <<"b", "v1">> >>,
            << <<"a", "v1">>, <<"b", "v2">> >> }
UpdateData == { <<"v1">>, <<"v1", "v2">> }

\* mq.q(frag, *args)
MqQ(frag, args) ==
    /\ Len(mq.queue) < MaxFrags
    /\ mq' = ModelQuery_q(mq, frag, args)
    /\ mqLast' = MqLast("q", "none", mqLast.after, mqLast.after)
    /\ UNCHANGED notMQ

\* mq.q_(frag, *args, **kwargs)
MqQ_(frag, args, kwargs) ==
    /\ Len(mq.queue) < MaxFrags
    /\ mq' = q_(mq, frag, args, kwargs)
    /\ mqLast' = MqLast("q_", "none", mqLast.after, mqLast.after)
    /\ UNCHANGED notMQ

\* mq.qc_(word, rest, *args, **kwargs)
MqQc_(rest, args, kwargs) ==
    /\ Len(mq.queue) + 1 < MaxFrags
    /\ mq' = qc_(mq, "w", rest, args, kwargs)
    /\ mqLast' = MqLast("qc_", "none", mqLast.after, mqLast.after)
    /\ UNCHANGED notMQ

\* mq.reset()
MqReset ==
    /\ mq' = reset(mq)
    /\ mqLast' = MqLast("reset", "none", mqLast.after, NoScaffold)
    /\ UNCHANGED notMQ

\* mq.qfilter(no_ordering)
MqFilter(no_ordering) ==
    \E r \in {qfilter(mq, no_ordering)} :
    /\ mq' = r.mq
    /\ mqLast' = MqLast("qfilter", r.exc, mqLast.after,
                        IF r.exc = "none" THEN Initiated(mqLast.after, "qfilter")
                        ELSE mqLast.after)
    /\ UNCHANGED notMQ

\* mq.qupdate(data)
MqUpdate(data) ==
    \E r \in {qupdate(mq, data)} :
    /\ mq' = r.mq
    /\ mqLast' = MqLast("qupdate", r.exc, mqLast.after,
                        IF r.exc = "none" THEN Initiated(mqLast.after, "qupdate")
                        ELSE mqLast.after)
    /\ UNCHANGED notMQ

NextMQ ==
    \/ \E frag \in Frags, args \in PosArgs : MqQ(frag, args)
    \/ \E frag \in Frags, args \in PosArgs, kwargs \in KwArgs : MqQ_(frag, args, kwargs)
    \/ \E frag \in Frags, args \in PosArgs, kwargs \in KwArgs : MqQc_(frag, args, kwargs)
    \/ MqReset
    \/ \E no_ordering \in BOOLEAN : MqFilter(no_ordering)
    \/ \E data \in UpdateData : MqUpdate(data)

(***************************************************************************)
(*                _get_changed_fields  (morm/_migration.py)                *)
(***************************************************************************)
\* ColumnConfig(**conf): the keys of conf that the comparison and the queries
\* read.  sql_alter is a Python tuple as Field builds it, and a list once it
\* was read from JSON; a tuple never equals a list.
ColumnConfig(sql_type, sql_onadd, sql_alter, sql_ondrop) ==
    [sql_type |-> sql_type, sql_onadd |-> sql_onadd,
     sql_alter |-> [kind |-> "tuple", items |-> sql_alter], sql_ondrop |-> sql_ondrop]

\* None where an op has no definition.
NoConf == ColumnConfig(None, None, <<>>, None)

\* ColumnConfig.__eq__(self, other)
ColumnConfig_eq(self, other) ==
    /\ self.sql_alter = other.sql_alter
    /\ self.sql_type = other.sql_type
    /\ self.sql_ondrop = other.sql_ondrop

\* json.load of the json.dump of ColumnConfig.to_json(): a tuple comes back
\* as a list.
json_load_dump(conf) == [conf EXCEPT !.sql_alter.kind = "list"]

\* ColumnConfig.get_query_column_modify with a query for every mod op.
get_query_column_modify_always(self, prev) == TRUE

\* ColumnConfig.get_query_column_modify(prev, table): whether the query is
\* not empty: the type changed, or sql_alter holds a setting prev lacks.
get_query_column_modify(self, prev) ==
    \/ self.sql_type # prev.sql_type
    \/ \E i \in 1..Len(self.sql_alter.items) :
          \A j \in 1..Len(prev.sql_alter.items) :
              self.sql_alter.items[i] # prev.sql_alter.items[j]

\* Field names and column definitions.  A dict of fields is a sequence of
\* <<name, definition>> pairs with distinct names, in the dict's order.  The
\* third definition differs from the first in sql_onadd only.
CFNames == {"a", "b", "c"}
ConfInt == ColumnConfig("int", "", <<>>, "")
ConfText == ColumnConfig("text", "", <<>>, "")
ConfIntNotNull == ColumnConfig("int", "NOT NULL", <<>>, "")
CFDefs  == {ConfInt, ConfText, ConfIntNotNull}

DictKeys(d) == {d[i][1] : i \in 1..Len(d)}
DictGet(d, k) == d[CHOOSE i \in 1..Len(d) : d[i][1] = k][2]

\* An entry of ops; fields an op does not have are None, and NoOp stands for
\* a name that is no key of ops.
Op(op, cur_key, cur_def, pre_key, pre_def, key_before) ==
    [op |-> op, cur_key |-> cur_key, cur_def |-> cur_def,
     pre_key |-> pre_key, pre_def |-> pre_def, key_before |-> key_before]
NoOp == Op("none", None, NoConf, None, NoConf, None)

\* next(curs_k) / next(pres_k) at loop turn i: None once the dict is exhausted.
KeyAt(d, i) == IF i <= Len(d) THEN d[i][1] ELSE None

\* The `if ck:` half of a loop turn: mod or add.
changed_cur(curs, pres, ck, key_before, ops) ==
    IF ck = None THEN ops
    ELSE IF ck \in DictKeys(pres)
      THEN IF ~ColumnConfig_eq(DictGet(curs, ck), DictGet(pres, ck))
             THEN [ops EXCEPT ![ck] = Op("mod", ck, DictGet(curs, ck), ck,
                                         DictGet(pres, ck), key_before)]
             ELSE ops
    ELSE [ops EXCEPT ![ck] = Op("add", ck, DictGet(curs, ck), None, NoConf, key_before)]

\* The `if pk:` half with the rename branch left out.
changed_pre_norename(curs, pres, ck, pk, key_before, ops) ==
    IF pk = None \/ pk \in DictKeys(curs) THEN ops
    ELSE [ops EXCEPT ![pk] = Op("delete", None, NoConf, pk, DictGet(pres, pk), key_before)]

\* The `if pk:` half with the delete branch left out.
changed_pre_nodelete(curs, pres, ck, pk, key_before, ops) ==
    IF pk = None \/ pk \in DictKeys(curs) THEN ops
    ELSE IF ck # None /\ ck \notin DictKeys(pres)
      THEN [ops EXCEPT ![ck] = Op("rename", ck, DictGet(curs, ck), pk,
                                  DictGet(pres, pk), key_before)]
    ELSE ops

\* The `if pk:` half of a loop turn: rename (over the add) or delete.
changed_pre(curs, pres, ck, pk, key_before, ops) ==
    IF pk = None \/ pk \in DictKeys(curs) THEN ops
    ELSE IF ck # None /\ ck \notin DictKeys(pres)
      THEN [ops EXCEPT ![ck] = Op("rename", ck, DictGet(curs, ck), pk,
                                  DictGet(pres, pk), key_before)]
    ELSE [ops EXCEPT ![pk] = Op("delete", None, NoConf, pk, DictGet(pres, pk), key_before)]

\* The loop of _get_changed_fields from turn i on.
RECURSIVE changed_loop(_, _, _, _, _)
changed_loop(curs, pres, i, key_before, ops) ==
    IF i > (IF Len(curs) >= Len(pres) THEN Len(curs) ELSE Len(pres)) THEN ops
    ELSE Only({ changed_loop(curs, pres, i + 1, KeyAt(pres, i), ops2) :
                ops2 \in {changed_pre(curs, pres, KeyAt(curs, i), KeyAt(pres, i), key_before,
                                      changed_cur(curs, pres, KeyAt(curs, i), key_before,
                                                  ops))} })

\* _get_changed_fields(curs, pres)
get_changed_fields(curs, pres) ==
    changed_loop(curs, pres, 1, None, [k \in CFNames |-> NoOp])

\* The dicts of fields over CFNames.
RECURSIVE DictsOver(_)
DictsOver(names) ==
    {<<>>} \cup UNION { { <<p>> \o d : d \in DictsOver(names \ {p[1]}) } :
                        p \in names \X CFDefs }
FieldDicts == { d \in DictsOver(CFNames) : \A i, j \in 1..Len(d) : d[i][1] = d[j][1] => i = j }

CfIdle == cf = [curs |-> <<>>, pres |-> <<>>, ops |-> [k \in CFNames |-> NoOp], done |-> FALSE]

CfInit ==
    \E curs \in FieldDicts, pres \in FieldDicts :
        cf = [curs |-> curs, pres |-> pres, ops |-> [k \in CFNames |-> NoOp], done |-> FALSE]

\* ops = _get_changed_fields(curs, pres)
CfRun ==
    /\ ~cf.done
    /\ cf' = [cf EXCEPT !.ops = get_changed_fields(cf.curs, cf.pres), !.done = TRUE]
    /\ UNCHANGED notCF

NextCF == CfRun

(***************************************************************************)
(*                      Migration  (morm/_migration.py)                    *)
(***************************************************************************)
\* Widths a Migration is constructed with (index_length), the most files
\* make_migrations writes in a behaviour, and the versions of the model's
\* fields.
IndexLengths == {1, 2}
MaxFiles == 3
Underscore == 95
Versions == {"v1", "v2"}

\* The model's fields, Migration._get_fields(), in two versions of the model
\* class.
Fields(v) ==
    IF v = "v1" THEN << <<"a", ColumnConfig("int", "", <<"unique">>, "")>> >>
    ELSE << <<"a", ColumnConfig("int", "", <<"unique", "default">>, "")>>,
            <<"b", ColumnConfig("text", "", <<"unique">>, "")>> >>

\* The fields of a snapshot file written for version v, as Migration.__init__
\* reads them: ColumnConfig(**v) for each field of pjson['fields'].
SnapshotFields(v) == [i \in 1..Len(Fields(v)) |-> <<Fields(v)[i][1], json_load_dump(Fields(v)[i][2])>>]

\* Migration._migration_query_generator(): whether the op of a field yields
\* a query that is not empty.
query_of(op) ==
    IF op.op = "mod" THEN get_query_column_modify(op.cur_def, op.pre_def)
    ELSE op.op \in {"add", "delete", "rename"}

\* The model classes handed to Migration: Meta.abstract, Meta.proxy and the
\* fields.
MgModel(abstract, proxy, v) == [abstract |-> abstract, proxy |-> proxy, v |-> v]
MgModels == { MgModel(a, x, v) : a \in BOOLEAN, x \in BOOLEAN, v \in Versions }
Concrete == { m \in MgModels : ~m.abstract /\ ~m.proxy }

\* str(i): the decimal digits of i.
RECURSIVE Digits(_)
Digits(i) == IF i < 10 THEN <<i>> ELSE Digits(i \div 10) \o <<i % 10>>

\* '0' * (index_length - len(cindex)) + cindex
Pad(i, index_length) ==
    [j \in 1..(IF index_length > Len(Digits(i)) THEN index_length - Len(Digits(i)) ELSE 0)
        |-> 0] \o Digits(i)

\* int(m.group(1)) for the index digits of a file name.
RECURSIVE IntOf(_)
IntOf(ds) == IF ds = <<>> THEN 0 ELSE 10 * IntOf(SubSeq(ds, 1, Len(ds) - 1)) + ds[Len(ds)]

\* The part of a file name that differs between the files of one directory,
\* "{cindex}_{timestamp}", as character codes.  The timestamp has one width
\* for every file and is held as one character.
FileStr(f) == [j \in 1..Len(f.idx) |-> 48 + f.idx[j]] \o <<Underscore, 48 + f.ts>>

\* s < t for strings.
StrLess(s, t) ==
    \/ \E i \in 1..Len(s) : /\ i <= Len(t)
                            /\ s[i] < t[i]
                            /\ \A j \in 1..(i - 1) : s[j] = t[j]
    \/ /\ Len(s) < Len(t)
       /\ \A j \in 1..Len(s) : s[j] = t[j]

\* sorted(glob.glob(pattern)) over a set of files with distinct names.
RECURSIVE SortedFiles(_)
SortedFiles(S) ==
    IF S = {} THEN <<>>
    ELSE Only({ <<m>> \o SortedFiles(S \ {m}) :
                m \in { x \in S : \A y \in S \ {x} : StrLess(FileStr(x), FileStr(y)) } })

\* The directory before anything was run on it.  lens observes the lengths
\* of the index strings of the files make_migrations has written so far.
NoDir == [dirs |-> {}, jsons |-> {}, queue |-> {}, cursor |-> <<>>,
          cursor_exists |-> FALSE, clock |-> 1, lens |-> {}]

\* Migration.__init__ without the guard on the model.
Migration_init_nocheck(fs, model, index_length) ==
    LET files == SortedFiles(fs.jsons)
        index == IF files = <<>> THEN 1 ELSE IntOf(files[Len(files)].idx) + 1
    IN [exc |-> None,
        fs  |-> [fs EXCEPT !.dirs = @ \cup {"table", "queue"}],
        obj |-> [index_length |-> index_length,
                 current |-> [idx |-> Pad(index, index_length), ts |-> fs.clock],
                 cfields |-> Fields(model.v),
                 v |-> model.v,
                 pfields |-> IF files = <<>> THEN <<>>
                             ELSE SnapshotFields(files[Len(files)].v)]]

\* Migration.__init__(model, migration_base_path, index_length)
Migration_init(fs, model, index_length) ==
    IF model.abstract \/ model.proxy
      THEN [exc |-> "MigrationModelNotAllowedError", fs |-> fs, obj |-> None]
      ELSE Migration_init_nocheck(fs, model, index_length)

\* Migration.make_migrations(yes=True): writes the runner script and the
\* snapshot when there is a query.
make_migrations(fs, obj) ==
    LET query == IF obj.pfields # <<>>
                   THEN \E changed \in {get_changed_fields(obj.cfields, obj.pfields)} :
                        \E k \in CFNames : query_of(changed[k])
                   ELSE TRUE
    IN IF ~query THEN [fs |-> fs, report |-> "no_changes"]
       ELSE [fs |-> [fs EXCEPT !.queue = @ \cup {obj.current},
                               !.jsons = @ \cup {[idx |-> obj.current.idx,
                                                  ts |-> obj.current.ts, v |-> obj.v]},
                               !.clock = @ + 1,
                               !.lens = @ \cup {Len(obj.current.idx)}],
             report |-> "created"]

\* The loop of Migration.delete_migration_files with the cursor file left as
\* it is.
RECURSIVE delete_loop_keepcursor(_, _, _, _)
delete_loop_keepcursor(fs, i, end, index_length) ==
    IF i > end THEN [fs |-> fs, exc |-> None]
    ELSE delete_loop_keepcursor([fs EXCEPT !.jsons = {f \in @ : f.idx # Pad(i, index_length)},
                                           !.queue = {f \in @ : f.idx # Pad(i, index_length)}],
                                i + 1, end, index_length)

\* The loop of Migration.delete_migration_files from index i on.
RECURSIVE delete_loop(_, _, _, _)
delete_loop(fs, i, end, index_length) ==
    IF i > end THEN [fs |-> fs, exc |-> None]
    ELSE LET si == Pad(i, index_length)
             trashed == [fs EXCEPT !.jsons = {f \in @ : f.idx # si},
                                   !.queue = {f \in @ : f.idx # si}]
         IN IF ~fs.cursor_exists
              THEN [fs |-> trashed, exc |-> "FileNotFoundError"]
              ELSE delete_loop([trashed EXCEPT !.cursor = SelectSeq(@, LAMBDA f : f.idx # si)],
                               i + 1, end, index_length)

\* Migration.delete_migration_files(start, end)
delete_migration_files(fs, obj, start, end) == delete_loop(fs, start, end, obj.index_length)

\* Migration._update_migration_cursor(path)
update_migration_cursor(fs, file) ==
    [fs EXCEPT !.cursor = Append(@, file), !.cursor_exists = TRUE]

\* Migration._get_unapplied_migrations with the cursor left out of account.
get_unapplied_migrations_nocursor(fs) == [exc |-> None, files |-> SortedFiles(fs.queue)]

\* Migration._get_unapplied_migrations()
get_unapplied_migrations(fs) ==
    LET mgrpy_files == SortedFiles(fs.queue)
    IN IF ~fs.cursor_exists THEN [exc |-> None, files |-> mgrpy_files]
       ELSE IF \E i \in 1..Len(fs.cursor) :
                  i > Len(mgrpy_files) \/ fs.cursor[i] # mgrpy_files[i]
         THEN [exc |-> "ValueError", files |-> <<>>]
       ELSE [exc |-> None,
             files |-> SubSeq(mgrpy_files, Len(fs.cursor) + 1, Len(mgrpy_files))]

\* Where one runner script of a migrate can fail: Transaction.start, run_before,
\* the migration query (with a syntax error or another error), run_after, and
\* the commit of Transaction.__aexit__ (after a syntax error too: the database
\* decides what the commit of the failed transaction does).
FaultPoints == {"start", "run_before", "syntax", "syntax_commit", "query", "run_after", "commit"}
NoFault == [at |-> 0, point |-> "none"]
MigratePlans(n) == {NoFault} \cup { [at |-> k, point |-> p] : k \in 1..n, p \in FaultPoints }

\* What a migrate did: the scripts whose run() was entered, whose run_after
\* was called, whose query went to stderr, whose transaction committed, and
\* the exception that left migrate.
NoRun == [ran |-> <<>>, after |-> {}, stderr |-> {}, committed |-> {}, exc |-> None]

\* MigrationRunner.run() of one script, inside `async with Transaction(pool)`,
\* followed by the cursor update and __aexit__.
run_script(fs, file, point, obs) ==
    IF point = "start"
      THEN [fs |-> fs, obs |-> [obs EXCEPT !.exc = "StartError"]]
    ELSE IF point = "run_before"
      THEN [fs |-> fs, obs |-> [obs EXCEPT !.ran = Append(@, file), !.exc = "RunBeforeError"]]
    ELSE IF point = "query"
      THEN [fs |-> fs, obs |-> [obs EXCEPT !.ran = Append(@, file), !.exc = "QueryError"]]
    ELSE IF point = "run_after"
      THEN [fs |-> fs, obs |-> [obs EXCEPT !.ran = Append(@, file), !.after = @ \cup {file},
                                           !.exc = "RunAfterError"]]
    ELSE [fs  |-> update_migration_cursor(fs, file),
          obs |-> [obs EXCEPT !.ran = Append(@, file),
                              !.after = @ \cup {file},
                              !.stderr = IF point \in {"syntax", "syntax_commit"}
                                           THEN @ \cup {file} ELSE @,
                              !.committed = IF point = "none" THEN @ \cup {file} ELSE @,
                              !.exc = IF point \in {"commit", "syntax_commit"}
                                        THEN "CommitError" ELSE None]]

\* The loop of Migration.migrate over the unapplied files, from the k-th on.
RECURSIVE migrate_loop(_, _, _, _, _)
migrate_loop(fs, files, k, plan, obs) ==
    IF k > Len(files) \/ obs.exc # None THEN [fs |-> fs, obs |-> obs]
    ELSE Only({ migrate_loop(r.fs, files, k + 1, plan, r.obs) :
                r \in {run_script(fs, files[k],
                                  IF plan.at = k THEN plan.point ELSE "none", obs)} })

\* Migration.migrate(pool)
migrate(fs, unapplied, plan) ==
    IF unapplied.exc # None
      THEN [fs |-> fs, obs |-> [NoRun EXCEPT !.exc = unapplied.exc], report |-> "none"]
    ELSE IF unapplied.files = <<>>
      THEN [fs |-> fs, obs |-> NoRun, report |-> "nothing_to_migrate"]
    ELSE Only({ [fs |-> r.fs, obs |-> r.obs, report |-> "none"] :
                r \in {migrate_loop(fs, unapplied.files, 1, plan, NoRun)} })

\* What the last command was and did.
MgLast(op, model, exc, report, pending, plan, obs, again) ==
    [op |-> op, model |-> model, exc |-> exc, report |-> report, pending |-> pending,
     plan |-> plan, obs |-> obs, again |-> again]

MgInit ==
    /\ mg = NoDir
    /\ mgLast = MgLast("none", None, None, "none", <<>>, NoFault, NoRun, FALSE)

MgIdle == MgInit

\* Migration(model, base_path, index_length)
MgConstruct(model, index_length) ==
    \E r \in {Migration_init(mg, model, index_length)} :
        /\ mg' = r.fs
        /\ mgLast' = MgLast("construct", model, r.exc, "none", <<>>, NoFault, NoRun, FALSE)
        /\ UNCHANGED notMG

\* Migration(model, base_path, index_length).make_migrations(yes=True)
MgMake(model, index_length) ==
    /\ mg.clock <= MaxFiles
    /\ \E c \in {Migration_init(mg, model, index_length)} :
       \E r \in {make_migrations(c.fs, c.obj)} :
        /\ mg' = r.fs
        /\ mgLast' = MgLast("make_migrations", model, None, r.report, <<>>, NoFault, NoRun,
                            FALSE)
        /\ UNCHANGED notMG

\* run_with_transaction(pool, Migration(model, base_path, index_length).migrate)
MgMigrate(model, index_length) ==
    \E c \in {Migration_init(mg, model, index_length)} :
    \E u \in {get_unapplied_migrations(c.fs)} :
    \E plan \in MigratePlans(Len(u.files)) :
    \E r \in {migrate(c.fs, u, plan)} :
        /\ mg' = r.fs
        /\ mgLast' = MgLast("migrate", model, r.obs.exc, r.report, u.files, plan, r.obs,
                            mgLast.op = "migrate" /\ mgLast.exc = None)
        /\ UNCHANGED notMG

\* Migration(model, base_path, index_length).delete_migration_files(start, end)
MgDelete(model, index_length, start, end) ==
    /\ start <= end
    /\ \E c \in {Migration_init(mg, model, index_length)} :
       \E r \in {delete_migration_files(c.fs, c.obj, start, end)} :
        /\ mg' = r.fs
        /\ mgLast' = MgLast("delete_migration_files", model, r.exc, "none", <<>>, NoFault,
                            NoRun, FALSE)
        /\ UNCHANGED notMG

NextMG ==
    \/ \E model \in MgModels, l \in {8} : MgConstruct(model, l)
    \/ \E model \in Concrete, l \in IndexLengths : MgMake(model, l)
    \/ \E model \in {MgModel(FALSE, FALSE, "v1")}, l \in {8} : MgMigrate(model, l)
    \/ \E model \in {MgModel(FALSE, FALSE, "v1")}, l \in IndexLengths,
          start \in 1..MaxFiles, end \in 1..MaxFiles :
           MgDelete(model, l, start, end)

(***************************************************************************)
(*              ModelType.__new__ and Meta  (morm/model.py)                *)
(***************************************************************************)
\* The classes defined in a behaviour, below the root Model, the mutable
\* Meta options, and the most mutations of their values.
ClassNames == {"User", "A", "B"}
AllClasses == ClassNames \cup {"Model"}
\* The classes that are given as the base of another.
Bases == {"Model", "User"}
MutableAttrs == {"exclude_values_up", "exclude_values_down", "_field_defs_"}
MaxMutations == 2

\* A mutable value is named by how a Meta came to hold it: the object the
\* class body gave, or the copy made for the class.
MetaRef(by, cls, attr) == [by |-> by, cls |-> cls, attr |-> attr]
Refs == { MetaRef(by, c, a) : by \in {"given", "copy"}, c \in AllClasses, a \in MutableAttrs }

\* What the Meta of a class body states: proxy, db_table and abstract
\* ("absent" when it does not), whether it states exclude_values_up and
\* _field_defs_, and whether the class body declares a Field of its own.
Given(proxy, db_table, abstract, evu, fd, field) ==
    [proxy |-> proxy, db_table |-> db_table, abstract |-> abstract, evu |-> evu, fd |-> fd,
     field |-> field]
MetaGivens ==
    { Given("absent", "absent", "absent", FALSE, FALSE, FALSE),
      Given("absent", "absent", "absent", FALSE, FALSE, TRUE),
      Given("True", "absent", "absent", FALSE, FALSE, FALSE),
      Given("True", "absent", "absent", FALSE, FALSE, TRUE),
      Given("False", "tbl", "True", TRUE, FALSE, TRUE),
      Given("absent", "absent", "absent", FALSE, TRUE, FALSE) }

\* A class: its parent, Meta.proxy, Meta.db_table, Meta.abstract, the
\* mutable options its Meta did not state, and the values they refer to.
Class(defined, parent, proxy, db_table, abstract, inherited, refs) ==
    [defined |-> defined, parent |-> parent, proxy |-> proxy, db_table |-> db_table,
     abstract |-> abstract, inherited |-> inherited, refs |-> refs]
Undefined == Class(FALSE, "none", FALSE, "none", FALSE, {},
                   [a \in MutableAttrs |-> MetaRef("copy", "Model", a)])

\* copy.deepcopy(v) leaving the base's object in place of a copy.
inherit_nocopy(hp, base_ref, new_ref) == [ref |-> base_ref, heap |-> hp]

\* meta_attrs[k] = copy.deepcopy(getattr(BaseMeta, k, v))
inherit(hp, base_ref, new_ref) ==
    [ref |-> new_ref, heap |-> [hp EXCEPT ![new_ref] = hp[base_ref]]]

\* set_meta_attrs for the mutable options of class name below base: the
\* object the Meta states, or the base's value inherited.
RECURSIVE set_meta_attrs(_, _, _, _, _, _)
set_meta_attrs(hp, base, name, attrs, stated, refs) ==
    IF attrs = {} THEN [heap |-> hp, refs |-> refs]
    ELSE LET a == CHOOSE x \in attrs : TRUE
         IN IF a \in stated
              THEN set_meta_attrs(hp, base, name, attrs \ {a}, stated,
                                  [refs EXCEPT ![a] = MetaRef("given", name, a)])
              ELSE Only({ set_meta_attrs(r.heap, base, name, attrs \ {a}, stated,
                                         [refs EXCEPT ![a] = r.ref]) :
                          r \in {inherit(hp, base.refs[a], MetaRef("copy", name, a))} })

\* ModelType.__new__(mcs, class_name, bases, attrs) for a class below parent.
ModelType_new(cls, hp, name, parent, g) ==
    LET base   == cls[parent]
        proxy  == IF g.proxy = "absent" THEN base.proxy ELSE g.proxy = "True"
        stated == IF g.evu THEN {"exclude_values_up"} ELSE {}
    IN IF g.fd \/ (proxy /\ g.field)
         THEN [exc |-> "ValueError", classes |-> cls, heap |-> hp]
       ELSE Only({ [exc |-> None,
                    heap |-> [m.heap EXCEPT ![m.refs["_field_defs_"]] =
                                 IF g.field THEN @ \cup {name} ELSE @],
                    classes |-> [cls EXCEPT ![name] =
                       Class(TRUE, parent, proxy,
                             IF g.db_table = "absent" THEN name ELSE g.db_table,
                             g.abstract = "True", MutableAttrs \ stated, m.refs)]] :
                   m \in {set_meta_attrs(hp, base, name, MutableAttrs, stated,
                                         Undefined.refs)} })

\* What the last step on the classes was.
MetaLast(op, name, attr, exc) == [op |-> op, name |-> name, attr |-> attr, exc |-> exc]

\* Only Model is defined: abstract, not a proxy, with values of its own.
ClsInit ==
    /\ classes = [c \in AllClasses |->
                    IF c = "Model"
                      THEN Class(TRUE, "none", FALSE, "", TRUE, {},
                                 [a \in MutableAttrs |-> MetaRef("given", "Model", a)])
                      ELSE Undefined]
    /\ heap = [r \in Refs |-> {}]
    /\ metaLast = MetaLast("none", "none", "none", None)

ClsIdle == ClsInit

\* class name(parent): class Meta: ...
ClsDefine(name, parent, g) ==
    /\ ~classes[name].defined
    /\ classes[parent].defined
    /\ \E r \in {ModelType_new(classes, heap, name, parent, g)} :
        /\ classes' = r.classes
        /\ heap' = r.heap
        /\ metaLast' = MetaLast("define", name, "none", r.exc)
    /\ UNCHANGED notCls

\* name.Meta.<attr>[...] = ...: the value the option refers to is changed in
\* place.
ClsMutate(name, attr) ==
    /\ classes[name].defined
    /\ Cardinality({r \in Refs : "changed" \in heap[r]}) < MaxMutations
    /\ "changed" \notin heap[classes[name].refs[attr]]
    /\ heap' = [heap EXCEPT ![classes[name].refs[attr]] = @ \cup {"changed"}]
    /\ metaLast' = MetaLast("mutate", name, attr, None)
    /\ UNCHANGED classes
    /\ UNCHANGED notCls

NextCls ==
    \/ \E name \in ClassNames, parent \in Bases, g \in MetaGivens :
           ClsDefine(name, parent, g)
    \/ \E name \in AllClasses, attr \in MutableAttrs : ClsMutate(name, attr)

(***************************************************************************)
(*      _get_ordering_ (morm/model.py) and ModelQuery.ordering (db.py)     *)
(***************************************************************************)
\* The field names an ordering names, the prefixes of an entry, and the most
\* entries of an ordering.
OrdFields == {"name", "age"}
OrdPrefixes == {"-", "+", ""}
MaxOrdering == 3

\* An entry of Meta.ordering is the string prefix \o name.
OrdEntry(prefix, name) == [prefix |-> prefix, name |-> name]
OrdEntries == { OrdEntry(p, n) : p \in OrdPrefixes, n \in OrdFields }
Orderings == UNION { [1..n -> OrdEntries] : n \in 0..MaxOrdering }

\* ModelType._get_ordering_(quote='"') from entry i on, direction being the
\* local variable of the generator: the pairs it yields.
RECURSIVE get_ordering(_, _, _)
get_ordering(ordering, i, direction) ==
    IF i > Len(ordering) THEN <<>>
    ELSE LET d == IF ordering[i].prefix = "-" THEN "DESC" ELSE direction
         IN <<[o |-> "\"" \o ordering[i].name \o "\"", direction |-> d]>>
            \o get_ordering(ordering, i + 1, d)

\* ','.join(parts)
RECURSIVE join_comma(_)
join_comma(parts) ==
    IF parts = <<>> THEN ""
    ELSE IF Len(parts) = 1 THEN parts[1]
    ELSE parts[1] \o "," \o join_comma(Tail(parts))

\* ModelQuery.ordering: ','.join([' '.join(y) for y in _get_ordering_()])
ordering_clause(ordering) ==
    Only({ join_comma([i \in 1..Len(ys) |-> ys[i].o \o " " \o ys[i].direction]) :
           ys \in {get_ordering(ordering, 1, "ASC")} })

OrdState(ordering, computed, pairs, clause) ==
    [ordering |-> ordering, computed |-> computed, pairs |-> pairs, clause |-> clause]

\* A model with some declared ordering, its clause not computed.
OrdInit == \E o \in Orderings : ord = OrdState(o, FALSE, <<>>, "")

OrdIdle == ord = OrdState(<<>>, FALSE, <<>>, "")

\* mq.ordering is read.
OrdCompute ==
    /\ ~ord.computed
    /\ ord' = OrdState(ord.ordering, TRUE, get_ordering(ord.ordering, 1, "ASC"),
                       ordering_clause(ord.ordering))
    /\ UNCHANGED notOrd

NextOrd == OrdCompute

(***************************************************************************)
(*                Connection-acquire contexts  (morm/ctx.py)               *)
(***************************************************************************)
\* The context objects of a behaviour, one MormConnectionAcquireContext and
\* two MormPoolAcquireContext on one pool, the connection the first wraps, the
\* connections of the pool, and the most scopes opened on one object.
CtxObjects == {"conn_ctx", "pool_ctx", "pool_ctx2"}
Wrapped == "c0"
PoolConns == {"c1", "c2"}
MaxScopes == 2

\* How the awaits of one __aenter__ go.
EnterOutcomes == {"ok", "acquire_fails", "codec_fails"}

\* A context object: connection, done, and the scopes open on it, i.e. the
\* entries that returned and were not left.
Ctx(connection, done, scopes) == [connection |-> connection, done |-> done, scopes |-> scopes]

\* [ctx, pool, exc, yielded, acquired] of one __aenter__.
Entered(ctx, pool, exc, yielded, acquired) ==
    [ctx |-> ctx, pool |-> pool, exc |-> exc, yielded |-> yielded, acquired |-> acquired]

\* MormConnectionAcquireContext.__aenter__
conn_aenter(self, pool, how) ==
    IF self.done THEN Entered(self, pool, "InterfaceError", None, None)
    ELSE IF how = "codec_fails" THEN Entered(self, pool, "codec_error", None, None)
    ELSE Entered([self EXCEPT !.scopes = @ + 1], pool, None, self.connection, None)

\* MormConnectionAcquireContext.__aexit__
conn_aexit(self, pool) ==
    [ctx |-> [self EXCEPT !.done = TRUE, !.connection = None, !.scopes = @ - 1], pool |-> pool]

\* MormPoolAcquireContext.__aenter__
pool_aenter(self, pool, how) ==
    IF self.connection # None \/ self.done
         THEN Entered(self, pool, "InterfaceError", None, None)
    ELSE IF how = "acquire_fails" \/ PoolConns \ pool = {}
         THEN Entered(self, pool, "acquire_error", None, None)
    ELSE LET con == CHOOSE c \in PoolConns \ pool : TRUE
         IN IF how = "codec_fails"
              THEN Entered([self EXCEPT !.connection = con], pool \cup {con}, "codec_error",
                           None, con)
            ELSE Entered([self EXCEPT !.connection = con, !.scopes = @ + 1], pool \cup {con},
                         None, con, con)

\* MormPoolAcquireContext.__aexit__
pool_aexit(self, pool) ==
    [ctx |-> [self EXCEPT !.done = TRUE, !.connection = None, !.scopes = @ - 1],
     pool |-> pool \ {self.connection}]

\* What the last step on a context object was: for an entry, whether a scope
\* had been entered on the object before, the exception, the connection
\* yielded and the connection acquired.
CtxLast(op, obj, again, exc, yielded, acquired) ==
    [op |-> op, obj |-> obj, again |-> again, exc |-> exc, yielded |-> yielded,
     acquired |-> acquired]

\* The objects constructed, none entered.
CtxInit ==
    /\ ctxs = [o \in CtxObjects |->
                 [ctx |-> Ctx(IF o = "conn_ctx" THEN Wrapped ELSE None, FALSE, 0),
                  entered |-> FALSE]]
    /\ ctxPool = {}
    /\ ctxLast = CtxLast("none", "none", FALSE, None, None, None)

CtxIdle == CtxInit

\* async with obj: __aenter__ is awaited.
CtxEnter(obj, how) ==
    /\ ctxs[obj].ctx.scopes < MaxScopes
    /\ \E r \in {IF obj = "conn_ctx" THEN conn_aenter(ctxs[obj].ctx, ctxPool, how)
                 ELSE pool_aenter(ctxs[obj].ctx, ctxPool, how)} :
        /\ ctxs' = [ctxs EXCEPT ![obj] = [ctx |-> r.ctx,
                                          entered |-> @.entered \/ r.exc = None]]
        /\ ctxPool' = r.pool
        /\ ctxLast' = CtxLast("enter", obj, ctxs[obj].entered, r.exc, r.yielded, r.acquired)
    /\ UNCHANGED notCtx

\* A scope opened on obj is left: __aexit__ is awaited.
CtxExit(obj) ==
    /\ ctxs[obj].ctx.scopes > 0
    /\ \E r \in {IF obj = "conn_ctx" THEN conn_aexit(ctxs[obj].ctx, ctxPool)
                 ELSE pool_aexit(ctxs[obj].ctx, ctxPool)} :
        /\ ctxs' = [ctxs EXCEPT ![obj].ctx = r.ctx]
        /\ ctxPool' = r.pool
        /\ ctxLast' = CtxLast("exit", obj, ctxs[obj].entered, None, None, None)
    /\ UNCHANGED notCtx

NextCtx ==
    \/ \E obj \in CtxObjects, how \in EnterOutcomes : CtxEnter(obj, how)
    \/ \E obj \in CtxObjects : CtxExit(obj)

(***************************************************************************)
(*                           Specifications                                *)
(***************************************************************************)
TxIdle   == TxInit(FALSE)
CrudIdle == /\ perp = FALSE /\ meta = MetaDefault /\ mob = ModelBase_init
            /\ origin = "new" /\ assigned = {} /\ last = Last("new", NoResult)
MqIdle   == MqInit
FvIdle   == /\ fvField = [default |-> Void, perpetual |-> FALSE,
                          validator |-> "always_valid", modifier |-> "nomodify",
                          fallback |-> FALSE]
            /\ fv = FieldValue(fvField)
            /\ fvLast = FvLast("init", FALSE, 0, Void, Void, FALSE)

\* The objects added to the first four, untouched.
ExtIdle == ClsIdle /\ OrdIdle /\ CtxIdle /\ HdlIdle
RestIdle == MqIdle /\ CfIdle /\ MgIdle /\ ExtIdle

\* One Transaction instance used by two tasks whose start() calls do not
\* overlap inside pool.acquire().
Init == TxInit(FALSE) /\ CrudIdle /\ FvIdle /\ RestIdle
Spec == Init /\ [][Next]_vars

\* The same with every interleaving of the two tasks.
InitRace == TxInit(TRUE) /\ CrudIdle /\ FvIdle /\ RestIdle
SpecRace == InitRace /\ [][Next]_vars

\* One model instance and the DB operations on it.
InitCrud == CrudInit /\ TxIdle /\ FvIdle /\ RestIdle
SpecCrud == InitCrud /\ [][NextCrud]_vars

\* One stand-alone FieldValue.
InitFV == FvInit /\ TxIdle /\ CrudIdle /\ RestIdle
SpecFV == InitFV /\ [][NextFV]_vars

\* Meta options that restrict what is read from an instance: fields_down,
\* exclude_fields_down, exclude_values_down for one field and for every field.
DownConfigs ==
    { MetaDefault,
      [MetaDefault EXCEPT !.fields_down = {"id", "name"}],
      [MetaDefault EXCEPT !.exclude_fields_down = {"name"}],
      [MetaDefault EXCEPT !.exclude_values_down =
                              [NoValues EXCEPT !["name"] = {"1"}, ![""] = {"2"}]] }

\* One model instance that is constructed, loaded, assigned to and read.
InitDown ==
    /\ perp \in BOOLEAN /\ meta \in DownConfigs /\ mob = ModelBase_init
    /\ origin = "new" /\ assigned = {} /\ last = Last("new", NoResult)
    /\ TxIdle /\ FvIdle /\ RestIdle
NextDown ==
    \/ ModelNew
    \/ \E cols \in RowColumns : \E row \in [SeqSet(cols) -> RowVals] : Load(cols, row)
    \/ \E k \in Names, v \in RowVals : Assign(k, v)
    \/ \E k \in Names : Delete(k)
SpecDown == InitDown /\ [][NextDown]_vars

\* One call of _get_changed_fields.
InitCF == CfInit /\ TxIdle /\ CrudIdle /\ FvIdle /\ MqIdle /\ MgIdle /\ ExtIdle
SpecCF == InitCF /\ [][NextCF]_vars

\* One migration directory, one command at a time.
InitMG == MgInit /\ TxIdle /\ CrudIdle /\ FvIdle /\ MqIdle /\ CfIdle /\ ExtIdle
SpecMG == InitMG /\ [][NextMG]_vars

OldIdle == TxIdle /\ CrudIdle /\ FvIdle /\ MqIdle /\ CfIdle /\ MgIdle

\* Model classes defined one below another, and their Meta values changed in
\* place.
InitCls == ClsInit /\ OldIdle /\ OrdIdle /\ CtxIdle /\ HdlIdle
SpecCls == InitCls /\ [][NextCls]_vars

\* The ORDER BY clause of a model with any declared ordering.
InitOrd == OrdInit /\ OldIdle /\ ClsIdle /\ CtxIdle /\ HdlIdle
SpecOrd == InitOrd /\ [][NextOrd]_vars

\* One connection context and one pool context, entered and left.
InitCtx == CtxInit /\ OldIdle /\ ClsIdle /\ OrdIdle /\ HdlIdle
SpecCtx == InitCtx /\ [][NextCtx]_vars

\* One ModelQuery.
InitMQ == MqInit /\ TxIdle /\ CrudIdle /\ FvIdle /\ CfIdle /\ MgIdle /\ ExtIdle
SpecMQ == InitMQ /\ [][NextMQ]_vars

(***************************************************************************)
(*                     Properties of the Transaction                       *)
(***************************************************************************)
\* The task is inside or past the terminal call of its __aexit__.
PastTerminal(t) ==
    \/ pc[t] \in {"term", "end", "release"}
    \/ pc[t] = "idle" /\ out[t] \in {"returned", "terminal_error", "release_error"}

\* C1: when a Transaction scope ends, exactly one terminal call is issued on
\* the native transaction its start() began: commit if the body finished
\* without an exception, rollback if it raised; never commit after a failing
\* body.
C1_OneTerminalAction ==
    \A t \in Tasks :
        PastTerminal(t) =>
            term[t] = << [op |-> IF bodyExc[t] THEN "rollback" ELSE "commit",
                          on |-> taskCon[t]] >>

\* A scope whose body raised has ended, and its only terminal call was rollback.
C1_Witness ==
    \E t \in Tasks :
        /\ pc[t] = "idle" /\ out[t] = "returned" /\ bodyExc[t]
        /\ term[t] = << [op |-> "rollback", on |-> taskCon[t]] >>

\* C2: whatever the body and commit/rollback did, the step by which __aexit__
\* returns or raises leaves db._con and tr cleared, has passed the connection
\* acquired at entry to pool.release, and that connection is back in the pool
\* unless release itself raised.
C2_ReleasedAndCleared ==
    [][\A t \in Tasks :
          (pc[t] \in {"end", "release"} /\ pc'[t] = "idle") =>
              /\ db_con' = None
              /\ tr' = None
              /\ relArg'[t] = taskCon[t]
              /\ (out'[t] # "release_error" => taskCon[t] \in free')]_vars

\* A scope whose body raised and whose rollback raised too has ended: the
\* connection is in the pool and both references are cleared.
C2_Witness ==
    \E t \in Tasks :
        /\ pc[t] = "idle" /\ out[t] = "terminal_error" /\ bodyExc[t]
        /\ db_con = None /\ tr = None /\ taskCon[t] \in free

\* C3 (as claimed): in every interleaving of two start() calls at most one
\* task obtains the DB handle, and the connection a task's start() acquired
\* stays the instance's connection until that task's end() passes it to
\* pool.release: none is overwritten or left unreleased.
C3_AtMostOneStarts ==
    /\ \A t, u \in Tasks : (out[t] = "db" /\ out[u] = "db") => t = u
    /\ \A t \in Tasks :
          /\ pc[t] \in {"trstart", "body", "exit", "term", "end"} => db_con = taskCon[t]
          /\ pc[t] = "release" => relArg[t] = taskCon[t]

\* Another task's scope on the instance is active: started and not yet ended.
Active(t) == \E u \in Tasks \ {t} : pc[u] \in {"body", "exit", "term", "end", "release"}

\* C4: while the instance is active, a further start() raises
\* TransactionError, does not go on to acquire, and leaves db._con, tr and
\* the pool as they were.
C4_ReentryRaises ==
    [][\A t \in Tasks :
          (Active(t) /\ pc[t] = "idle" /\ (pc'[t] # pc[t] \/ out'[t] # out[t])) =>
              /\ out'[t] = "TransactionError"
              /\ pc'[t] = "idle"
              /\ UNCHANGED <<db_con, tr, free>>]_vars

\* A start() has raised TransactionError while the other task's scope is in
\* its body, whose connection is still the instance's.
C4_Witness ==
    \E t \in Tasks, u \in Tasks :
        /\ t # u /\ out[t] = "TransactionError" /\ pc[t] = "idle"
        /\ pc[u] = "body" /\ db_con = taskCon[u] /\ tr = taskCon[u]

(***************************************************************************)
(*                      Properties of the FieldValue                       *)
(***************************************************************************)
\* The counter rule of a FieldValue whose counter is kept as assigned.
CounterFollows ==
    /\ fvLast.op = "init" => fv.count = 0
    /\ (fvLast.op = "set" /\ ~fvLast.raised) => fv.count = fvLast.count + 1
    /\ (fvLast.op = "set" /\ fvLast.raised) => fv.count = fvLast.count
    /\ fvLast.op = "delete" => (fv.value = Void /\ fv.count = fvLast.count)

\* C9 (as claimed): for every FieldValue the counter is 0 on creation, a
\* successful set_value raises it by exactly 1, a raising set_value leaves it,
\* and delete_value sets the value to Void and leaves the counter.
C9_CounterEveryField == CounterFollows

\* C9 (amended): the counter rule holds for a FieldValue of a Field without
\* a perpetual value; a FieldValue of a perpetual Field counts 1 from its
\* creation on, whatever is set or deleted, and delete_value still sets the
\* value to Void.
C9_CounterNonPerpetual ==
    /\ ~fvField.perpetual => CounterFollows
    /\ fvField.perpetual => fv.count = 1
    /\ fvLast.op = "delete" => fv.value = Void

\* A non-perpetual FieldValue was set twice and then deleted: the counter is
\* still 2 and the value is Void.
C9_Witness ==
    /\ ~fvField.perpetual /\ fvLast.op = "delete"
    /\ fvLast.count = 2 /\ fvLast.value # Void /\ fv.count = 2 /\ fv.value = Void

(***************************************************************************)
(*            Properties of the instance and the DB operations             *)
(***************************************************************************)
\* C5 (as claimed): save calls insert exactly when update failed for want of
\* a usable primary key; a failure raised by the update hooks or by the
\* UPDATE's execution leaves save as an exception, no insert being attempted.
C5_InsertIffNoPk ==
    last.op = "save" =>
        /\ ("pre_insert" \in SeqSet(last.ev)) <=> (last.why = "nopk")
        /\ last.why \in UpdatePoints => last.exc # "none"

\* C6 (as claimed): on an instance produced from a row, a loaded field the
\* user has not assigned since has change count 0, and the SET list of
\* get_update_query names exactly the fields assigned since the load, the
\* primary key apart.  (Perpetual fields, which always count 1, are left out.)
C6_LoadedFieldsClean ==
    origin = "row" =>
        /\ \A k \in (mob.fromdb \ PerpNames) \ assigned : mob.fields[k].count = 0
        /\ LET q == get_update_query(mob, FALSE) IN
           q.exc = "none" => SeqSet(q.cols) \ PerpNames = assigned \ (PerpNames \cup {Pk})

C10_PerpetualUntilAssigned ==
    \A k \in PerpNames \ assigned : value(FieldDef(k), mob.fields[k]) = "now"

(***************************************************************************)
(*                      Properties of the ModelQuery                       *)
(***************************************************************************)
\* The tokens of the fragments in the queue of builder m that satisfy P.
QueueTokens(m, P(_)) ==
    UNION { {m.queue[i].toks[j] : j \in 1..Len(m.queue[i].toks)} :
            i \in {x \in 1..Len(m.queue) : P(m.queue[x])} }

\* What is claimed of the slot of the supplied name k in builder m: every $n
\* written for it is its one slot, whose argument came from it and from
\* nothing else; without a slot it has no argument.
OneSlot(m, k) ==
    /\ \A tok \in QueueTokens(m, LAMBDA e : TRUE) :
          (tok.t = "slot" /\ tok.name = k) =>
              (tok.n = m.named_args_mapper[k] /\ tok.n \in 1..Len(m.args))
    /\ m.named_args_mapper[k] # 0 =>
          /\ m.named_args_mapper[k] \in 1..Len(m.args)
          /\ m.args[m.named_args_mapper[k]].src = k
          /\ Cardinality({i \in 1..Len(m.args) : m.args[i].src = k}) = 1
    /\ m.named_args_mapper[k] = 0 => \A i \in 1..Len(m.args) : m.args[i].src # k

\* The call that gives k its slot appends the value k holds after the call.
SlotValue(k) ==
    (mq.named_args_mapper[k] = 0 /\ mq'.named_args_mapper[k] # 0) =>
        /\ mq'.named_args_mapper[k] \in (Len(mq.args) + 1)..Len(mq'.args)
        /\ mq'.args[mq'.named_args_mapper[k]].v = mq'.named_args[k]

\* C11 (as claimed): after any q/q_/qc_ calls every :name of a supplied name,
\* in any fragment, has been rewritten to the name's one slot $n, whose
\* value was appended once at index n-1; a supplied name not yet referenced
\* has no slot.
C11_EveryRefRewritten ==
    [][\A k \in Known(mq') :
          /\ Ref(k) \notin QueueTokens(mq', LAMBDA e : TRUE)
          /\ OneSlot(mq', k)
          /\ SlotValue(k)]_vars

\* C11 (amended): the same of every fragment passed to q_/qc_ when the name
\* was already supplied (or is supplied by that call); fragments passed to
\* q and references made before the name was supplied keep their :name.
\* The argument list and the argument counter stay in step.
C11_RefsRewrittenOnceSupplied ==
    [][/\ \A k \in Known(mq') :
             /\ Ref(k) \notin QueueTokens(mq', LAMBDA e : e.by = "q_" /\ k \in e.known)
             /\ OneSlot(mq', k)
             /\ SlotValue(k)
       /\ Len(mq'.args) = mq'.arg_count]_vars

\* Two q_ fragments reference :a, the second without supplying it: both hold
\* the same $2 after a positional argument, a's value is in the list once,
\* and b, supplied but never referenced, has no slot.
C11_Witness ==
    /\ Len(mq.queue) = 2
    /\ mq.queue[1].by = "q_" /\ mq.queue[2].by = "q_"
    /\ Slot("a", 2) \in QueueTokens(mq, LAMBDA e : e = mq.queue[1])
    /\ Slot("a", 2) \in QueueTokens(mq, LAMBDA e : e = mq.queue[2])
    /\ mq.queue[1].known = {"a", "b"}
    /\ mq.named_args_mapper["a"] = 2 /\ mq.named_args_mapper["b"] = 0
    /\ Len(mq.args) = 2 /\ mq.args[1].src = "pos" /\ mq.args[2].src = "a"
    /\ mqLast.op = "q_"

\* What a repeated scaffold initiation does: it raises and changes nothing.
RaisesUnchanged == mqLast'.exc = "ValueError" /\ mq' = mq

\* C12 (as claimed): qfilter() after a qfilter() with no reset() call in
\* between raises and leaves the query and arguments unchanged; the same for
\* qupdate(); after reset() either scaffold can be initiated.
C12_RepeatRaises ==
    [][\A kind \in {"qfilter", "qupdate"} :
          (mqLast'.op = kind /\ mqLast' # mqLast) =>
              /\ kind \in mqLast'.before.called => RaisesUnchanged
              /\ mqLast'.before = NoScaffold => mqLast'.exc = "none"]_vars

\* C12 (amended): qfilter() raises, leaving the query and arguments
\* unchanged, exactly when qfilter() is the latest scaffold initiated and no
\* reset() was called since; the same for qupdate().  Initiating the other
\* scaffold resets the builder and so allows the first again; after reset()
\* either scaffold can be initiated.
C12_RepeatOfLatestRaises ==
    [][\A kind \in {"qfilter", "qupdate"} :
          (mqLast'.op = kind /\ mqLast' # mqLast) =>
              /\ mqLast'.before.latest = kind => RaisesUnchanged
              /\ mqLast'.before.latest # kind =>
                    /\ mqLast'.exc = "none"
                    /\ mq'.queue # <<>>
                    /\ Known(mq') = {}]_vars

\* qfilter() has raised on a builder whose filter carries a condition.
C12_Witness ==
    /\ mqLast.op = "qfilter" /\ mqLast.exc = "ValueError"
    /\ mqLast.before.latest = "qfilter"
    /\ Len(mq.queue) = 2 /\ mq.args # <<>>

(***************************************************************************)
(*                  Properties of reading an instance                      *)
(***************************************************************************)
\* The name k may be read under the Meta options.
DownName(k) ==
    /\ (meta.fields_down # {} => k \in meta.fields_down)
    /\ k \notin meta.exclude_fields_down

\* The value v of field k may be read under the Meta options.
DownValue(k, v) ==
    /\ v # Void
    /\ v \notin meta.exclude_values_down[k]
    /\ v \notin meta.exclude_values_down[""]

\* C13: reading a declared field returns its current value if the name and
\* the value are valid for down and raises AttributeError otherwise, and
\* iterating the instance yields, in field order, exactly the (name, value)
\* pairs that pass the check.
C13_ReadOnlyValidDown ==
    /\ \A k \in Names :
          LET v == value(FieldDef(k), mob.fields[k]) IN
          getattr(mob, k) = IF DownName(k) /\ DownValue(k, v)
                            THEN [ok |-> TRUE, value |-> v]
                            ELSE [ok |-> FALSE, value |-> Void]
    /\ LET yielded == ModelBase_iter(mob) IN
       /\ \A i, j \in 1..Len(yielded) : i # j => yielded[i][1] # yielded[j][1]
       /\ SeqSet(yielded) =
            {<<k, value(FieldDef(k), mob.fields[k])>> :
                k \in {n \in Names : DownName(n) /\
                                     DownValue(n, value(FieldDef(n), mob.fields[n]))}}

\* A loaded instance whose id can be read, whose name holds a value excluded
\* for that field and whose stamp holds a value excluded for every field:
\* reading name or stamp raises and iteration yields id alone.
C13_Witness ==
    /\ origin = "row"
    /\ meta.exclude_values_down[""] = {"2"}
    /\ mob.fields["name"].value = "1" /\ mob.fields["stamp"].value = "2"
    /\ getattr(mob, "id") = [ok |-> TRUE, value |-> "1"]
    /\ ~getattr(mob, "name").ok /\ ~getattr(mob, "stamp").ok
    /\ ModelBase_iter(mob) = << <<"id", "1">> >>

\* C14 (as claimed): assigning v stores v if validator(v) holds; otherwise
\* modifier(v) if validator(modifier(v)) holds; otherwise the Field's default
\* if fallback is true; and with fallback false it raises ValueError and the
\* stored value stays.
C14_CleanOrFallback ==
    fvLast.op = "set" =>
        IF Validate(fvField, fvLast.v)
          THEN ~fvLast.raised /\ fv.value = fvLast.v
        ELSE IF /\ Modify(fvField, fvLast.v) # Raise
                /\ Validate(fvField, Modify(fvField, fvLast.v))
          THEN ~fvLast.raised /\ fv.value = Modify(fvField, fvLast.v)
        ELSE IF fvLast.fb
          THEN ~fvLast.raised /\ fv.value = get_default(fvField)
        ELSE fvLast.raised /\ fv.value = fvLast.value

(***************************************************************************)
(*                  Properties of _get_changed_fields                      *)
(***************************************************************************)
\* The positions at which the current name is new and the previous name is
\* gone.
RenamePositions ==
    { i \in 1..Len(cf.curs) :
        /\ i <= Len(cf.pres)
        /\ cf.curs[i][1] \notin DictKeys(cf.pres)
        /\ cf.pres[i][1] \notin DictKeys(cf.curs) }

\* C15: for a position where the current name is absent from the previous
\* fields and the previous name is absent from the current fields, the
\* result holds exactly one op for the pair, a rename from the previous name
\* to the current name, and no add of the current name nor delete of the
\* previous name.
C15_RenameNotAddDelete ==
    cf.done =>
        \A i \in RenamePositions :
            LET ck == cf.curs[i][1]
                pk == cf.pres[i][1]
            IN /\ cf.ops[ck] = Op("rename", ck, cf.curs[i][2], pk, cf.pres[i][2],
                                  IF i = 1 THEN None ELSE cf.pres[i - 1][1])
               /\ cf.ops[pk] = NoOp
               /\ { k \in CFNames : cf.ops[k] # NoOp /\
                                    (cf.ops[k].cur_key = ck \/ cf.ops[k].pre_key = pk) }
                    = {ck}

\* The second of two fields was renamed (c to b) and the first modified: the
\* result holds the rename for b and nothing for c.
C15_Witness ==
    /\ cf.done
    /\ cf.curs = << <<"a", ConfText>>, <<"b", ConfInt>> >>
    /\ cf.pres = << <<"a", ConfInt>>, <<"c", ConfInt>> >>
    /\ RenamePositions = {2}
    /\ cf.ops["b"].op = "rename"
    /\ cf.ops["a"].op = "mod"

(***************************************************************************)
(*                        Properties of Migration                          *)
(***************************************************************************)
Elems(q) == {q[i] : i \in 1..Len(q)}
IsPrefix(c, q) == Len(c) <= Len(q) /\ \A i \in 1..Len(c) : c[i] = q[i]
Ascending(q) == \A i, j \in 1..Len(q) : i < j => StrLess(FileStr(q[i]), FileStr(q[j]))

\* C16: a migrate that returns runs every script of the queue that the
\* cursor did not hold, each once and in the order of the file names, and
\* leaves all of them in the cursor, which is a prefix of the sorted queue;
\* a migrate that follows such a migrate runs nothing and reports that there
\* is nothing to migrate.
C16_MigrateTwice ==
    [][(mgLast'.op = "migrate" /\ mgLast'.exc = None) =>
         /\ Elems(mgLast'.obs.ran) = mg.queue \ Elems(mg.cursor)
         /\ Len(mgLast'.obs.ran) = Cardinality(mg.queue \ Elems(mg.cursor))
         /\ Ascending(mgLast'.obs.ran)
         /\ Elems(mg'.cursor) = mg.queue
         /\ IsPrefix(mg'.cursor, SortedFiles(mg'.queue))
         /\ (mgLast'.report = "nothing_to_migrate") = (mgLast'.obs.ran = <<>>)
         /\ (mgLast.op = "migrate" /\ mgLast.exc = None) =>
               (mgLast'.obs.ran = <<>> /\ mgLast'.report = "nothing_to_migrate")]_vars

\* A second migrate after one that ran two scripts: nothing to migrate.
C16_Witness ==
    /\ mgLast.op = "migrate" /\ mgLast.again
    /\ mgLast.exc = None
    /\ mgLast.report = "nothing_to_migrate"
    /\ Len(mg.cursor) >= 2
    /\ mg.cursor = SortedFiles(mg.queue)

\* C17 (as stated): after any sequence of make_migrations, migrate and
\* delete_migration_files the cursor is an ordered prefix of the sorted queue
\* and the consistency check of migrate passes.
C17_CursorPrefixAlways ==
    /\ IsPrefix(mg.cursor, SortedFiles(mg.queue))
    /\ get_unapplied_migrations(mg).exc = None

\* Every file make_migrations has written carries an index string of one
\* length: one index_length was used and no index outgrew it.
OneWidth == Cardinality(mg.lens) <= 1

\* C17 (amended): while every file written to the directory carried an index
\* string of one length, the cursor is an ordered prefix of the sorted queue and the
\* consistency check of migrate passes.
C17_CursorPrefixOneWidth ==
    OneWidth =>
        /\ IsPrefix(mg.cursor, SortedFiles(mg.queue))
        /\ get_unapplied_migrations(mg).exc = None

\* After a delete_migration_files the cursor still holds an applied script
\* and the queue one more that is pending.
C17_Witness ==
    /\ mgLast.op = "delete_migration_files" /\ mgLast.exc = None
    /\ OneWidth
    /\ mg.cursor # <<>>
    /\ Len(mg.cursor) < Cardinality(mg.queue)
    /\ IsPrefix(mg.cursor, SortedFiles(mg.queue))

\* C18: a script during which run_before, the migration query, run_after or
\* the commit of its transaction failed is not in the cursor after the
\* migrate, and is pending again.
C18_RecordedOnlyAfterCommit ==
    (/\ mgLast.op = "migrate"
     /\ mgLast.plan.point \in {"run_before", "query", "syntax", "syntax_commit",
                               "run_after", "commit"}) =>
        /\ mgLast.pending[mgLast.plan.at] \notin Elems(mg.cursor)
        /\ mgLast.pending[mgLast.plan.at] \in Elems(get_unapplied_migrations(mg).files)

\* C19: when the migration query of a script fails with a syntax error, the
\* query is written to stderr, an exception leaves migrate, run_after of the
\* script is not called, the script is not in the cursor and no later script
\* is run.
C19_SyntaxErrorPropagates ==
    (/\ mgLast.op = "migrate"
     /\ mgLast.plan.point \in {"syntax", "syntax_commit"}) =>
        LET file == mgLast.pending[mgLast.plan.at]
        IN /\ file \in mgLast.obs.stderr
           /\ mgLast.exc # None
           /\ file \notin mgLast.obs.after
           /\ file \notin Elems(mg.cursor)
           /\ Len(mgLast.obs.ran) = mgLast.plan.at

\* C20: constructing Migration for a model whose Meta.abstract or Meta.proxy
\* is true raises MigrationModelNotAllowedError and leaves the directories
\* and files as they were.
C20_AbstractProxyRefused ==
    [][(mgLast'.op = "construct" /\ (mgLast'.model.abstract \/ mgLast'.model.proxy)) =>
         /\ mgLast'.exc = "MigrationModelNotAllowedError"
         /\ mg'.dirs = mg.dirs
         /\ mg' = mg]_vars

\* Migration was refused a proxy model on a directory nothing had been run
\* on: no directory exists.
C20_Witness ==
    /\ mgLast.op = "construct"
    /\ mgLast.model.proxy /\ ~mgLast.model.abstract
    /\ mgLast.exc = "MigrationModelNotAllowedError"
    /\ mg.dirs = {}

(***************************************************************************)
(*                     Properties of make_migrations                       *)
(***************************************************************************)
\* The snapshot Migration reads as the previous one: the last in the order of
\* the file names.
LatestSnapshot ==
    CHOOSE j \in mg.jsons : \A y \in mg.jsons \ {j} : StrLess(FileStr(y), FileStr(j))

\* The step is a make_migrations for a model whose fields are those of the
\* latest snapshot.
MakeUnchanged ==
    /\ mgLast'.op = "make_migrations"
    /\ mg.jsons # {}
    /\ LatestSnapshot.v = mgLast'.model.v

C22_ProxySharesTable ==
    \A c \in ClassNames :
        (classes[c].defined /\ classes[c].proxy /\ classes[c].parent # "Model")
            => /\ classes[c].db_table = classes[classes[c].parent].db_table
               /\ classes[c].abstract = classes[classes[c].parent].abstract

\* The classes a mutation through class name must leave alone: its base and
\* the other classes below that base.
BaseAndSiblings(name) ==
    { c \in AllClasses \ {name} :
        classes[c].defined /\ (c = classes[name].parent \/ classes[c].parent = classes[name].parent) }

\* C24: when a class inherited a mutable Meta option from its base, changing
\* the value in place through that class's Meta changes neither the value its
\* base holds nor the value any sibling class holds for any mutable option.
C24_MutationStaysLocal ==
    [][(metaLast'.op = "mutate" /\ metaLast'.attr \in classes[metaLast'.name].inherited)
         => \A c \in BaseAndSiblings(metaLast'.name), a \in MutableAttrs :
               heap'[classes'[c].refs[a]] = heap[classes[c].refs[a]]]_vars

\* Two siblings inherited _field_defs_ from User and one of them changed its
\* value: the other's and the base's are as they were.
C24_Witness ==
    /\ metaLast = MetaLast("mutate", "A", "_field_defs_", None)
    /\ classes["A"].parent = "User" /\ classes["B"].parent = "User"
    /\ classes["B"].defined
    /\ "_field_defs_" \in classes["A"].inherited \cap classes["B"].inherited
    /\ "changed" \in heap[classes["A"].refs["_field_defs_"]]
    /\ "changed" \notin heap[classes["B"].refs["_field_defs_"]]
    /\ "changed" \notin heap[classes["User"].refs["_field_defs_"]]

(***************************************************************************)
(*                        Claims on Meta.ordering                          *)
(***************************************************************************)
\* The pair the specification gives for one entry, whatever precedes it.
OrdExpected(e) ==
    [o |-> "\"" \o e.name \o "\"", direction |-> IF e.prefix = "-" THEN "DESC" ELSE "ASC"]

\* C23: the ORDER BY clause computed from Meta.ordering maps every entry
\* independently of the entries before it: '-field' gives "field" DESC,
\* '+field' and 'field' give "field" ASC, in declared order.
C23_EntriesIndependent ==
    ord.computed =>
        /\ Len(ord.pairs) = Len(ord.ordering)
        /\ \A i \in 1..Len(ord.ordering) : ord.pairs[i] = OrdExpected(ord.ordering[i])

(***************************************************************************)
(*                 Claims on the connection-acquire contexts               *)
(***************************************************************************)
\* C25: for both context classes, entering an object on which a scope was
\* entered before, whether that scope is still open or was left, fails with
\* InterfaceError, yields no connection and acquires none.
C25_SecondEntryFails ==
    [][(ctxLast'.op = "enter" /\ ctxLast'.again)
         => /\ ctxLast'.exc = "InterfaceError"
            /\ ctxLast'.yielded = None
            /\ ctxLast'.acquired = None
            /\ ctxPool' = ctxPool]_vars

\* C26: when DB.update fails in its pre-update hook or while executing the
\* UPDATE, the change counters of the fields that were to be written are what
\* they were before the call, so that the same columns are pending for a
\* retry.
C26_FailedUpdateKeepsPending ==
    [][(last'.op = "update" /\ last'.why \in {"pre_update", "exec_update"})
         => /\ \A n \in SeqSet(get_update_query(mob, FALSE).cols) :
                   mob'.fields[n].count = mob.fields[n].count
            /\ get_update_query(mob', FALSE).cols = get_update_query(mob, FALSE).cols]_vars

\* C27: when start() has acquired a connection and starting the native
\* transaction fails, the connection is back in the pool and db._con is
\* cleared when start() raises, so that a later start() on the instance is
\* not refused.
C27_FailedStartReleases ==
    [][\A t \in Tasks :
         (pc[t] = "trstart" /\ pc'[t] = "idle" /\ out'[t] = "StartFailed")
            => /\ db_con' = None
               /\ taskCon[t] \in free']_vars

\* C28: a statement sent through the handle of a scope goes to that scope's
\* connection while the scope is active, and once the scope was left it
\* fails and reaches neither the pool nor a connection, also when the
\* Transaction has been started again.
C28_HandleBoundToScope ==
    /\ handleUse.scope = "active" => (handleUse.exc = None /\ handleUse.on = handleUse.con)
    /\ handleUse.scope = "exited" => (handleUse.exc # None /\ handleUse.on = None)

\* C29: for every named argument that has a slot n, the argument list holds
\* at index n-1 the value most recently supplied for the name, also when the
\* name was supplied again with another value after the slot was assigned.
C29_SlotHoldsLatestValue ==
    \A k \in MQNames :
        mq.named_args_mapper[k] # 0 =>
            /\ mq.named_args_mapper[k] <= Len(mq.args)
            /\ mq.args[mq.named_args_mapper[k]].v = mq.named_args[k]

\* The names of the ops of one kind in the result.
OpsOf(kind) == { k \in CFNames : cf.ops[k].op = kind }

\* C30: _get_changed_fields loses no column: every previous name absent from
\* the current map is the key of exactly one delete op or the pre_key of
\* exactly one rename op, every current name absent from the previous map is
\* the key of an add op or of a rename op, and a name in both maps whose
\* ColumnConfigs are equal has no op.
C30_NoColumnLost ==
    cf.done =>
        /\ \A p \in DictKeys(cf.pres) \ DictKeys(cf.curs) :
              Cardinality({ k \in OpsOf("delete") : k = p /\ cf.ops[k].pre_key = p })
                + Cardinality({ k \in OpsOf("rename") : cf.ops[k].pre_key = p }) = 1
        /\ \A c \in DictKeys(cf.curs) \ DictKeys(cf.pres) :
              cf.ops[c].op \in {"add", "rename"} /\ cf.ops[c].cur_key = c
        /\ \A n \in DictKeys(cf.curs) \cap DictKeys(cf.pres) :
              ColumnConfig_eq(DictGet(cf.curs, n), DictGet(cf.pres, n)) => cf.ops[n] = NoOp

\* A column was dropped, another added elsewhere, and a third kept with a
\* definition that differs only in what __eq__ does not compare.
C30_Witness ==
    /\ cf.done
    /\ cf.curs = << <<"a", ConfIntNotNull>>, <<"b", ConfText>> >>
    /\ cf.pres = << <<"c", ConfText>>, <<"a", ConfInt>> >>
    /\ cf.ops["c"].op = "delete" /\ cf.ops["b"].op = "add" /\ cf.ops["a"] = NoOp

=============================================================================
